---- MODULE Spec2Model ----
(***************************************************************************)
(* Verification model of the ngl-storyteller canvas editor.                *)
(*                                                                         *)
(* The layer collection and its owner (src/App.tsx), the gesture           *)
(* controller and the geometry functions (src/components/Canvas.tsx) and   *)
(* the initial-size helper (src/utils/imageUtils.ts).                      *)
(*                                                                         *)
(* JavaScript numbers are modelled as exact rationals <<n, d>> (d > 0, in  *)
(* lowest terms): sums, products, quotients, Math.max and Math.min are     *)
(* computed exactly; IEEE rounding, NaN and the infinities are not         *)
(* represented, so every divisor in this model is non-zero.                *)
(***************************************************************************)
EXTENDS Integers, Sequences, FiniteSets, Bags, TLC

(***************************************************************************)
(* Numbers                                                                 *)
(***************************************************************************)
Abs(i) == IF i < 0 THEN -i ELSE i

RECURSIVE Gcd(_, _)
Gcd(a, b) == IF b = 0 THEN a ELSE Gcd(b, a % b)

\* the number n/d, d # 0, in lowest terms with a positive denominator
Rat(n, d) ==
  LET g == Gcd(Abs(n), Abs(d))
      s == IF d < 0 THEN -1 ELSE 1
  IN  <<(s * n) \div g, (s * d) \div g>>

N(i) == <<i, 1>>

Add(a, b) == Rat(a[1] * b[2] + b[1] * a[2], a[2] * b[2])
Sub(a, b) == Rat(a[1] * b[2] - b[1] * a[2], a[2] * b[2])
Mul(a, b) == Rat(a[1] * b[1], a[2] * b[2])
Div(a, b) == Rat(a[1] * b[2], a[2] * b[1])
Lt(a, b) == a[1] * b[2] < b[1] * a[2]
Le(a, b) == a[1] * b[2] <= b[1] * a[2]
Max(a, b) == IF Lt(a, b) THEN b ELSE a
Min(a, b) == IF Lt(b, a) THEN b ELSE a

\* an angle in degrees: deg exactly when dir = <<0, 0>>; otherwise the angle of
\* the direction dir = <<y, x>> (coprime integers), which lies strictly between
\* deg and deg + 45
Angle(deg, dir) == [deg |-> deg, dir |-> dir]

(***************************************************************************)
(* Values of src/types.ts                                                  *)
(***************************************************************************)
DragMode ==
  {"NONE", "DRAG", "RESIZE_TL", "RESIZE_TR", "RESIZE_BL", "RESIZE_BR",
   "ROTATE", "CROP_T", "CROP_B", "CROP_L", "CROP_R"}

ResizeModes == {"RESIZE_TL", "RESIZE_TR", "RESIZE_BL", "RESIZE_BR"}
CropModes == {"CROP_T", "CROP_B", "CROP_L", "CROP_R"}

\* selectedItemId: string | null; ids are clock readings, which are positive
NullId == 0

\* T | null as a sequence of length at most one
Null == <<>>
Some(v) == <<v>>

Position(x, y) == [x |-> x, y |-> y]
Size(w, h) == [width |-> w, height |-> h]
Crop(t, b, l, r) == [top |-> t, bottom |-> b, left |-> l, right |-> r]

\* { ...item, ...updates }
Merge(item, updates) ==
  [k \in DOMAIN item |-> IF k \in DOMAIN updates THEN updates[k] ELSE item[k]]

(***************************************************************************)
(* Geometry model: src/components/Canvas.tsx                               *)
(***************************************************************************)
calculateDragUpdate(initialState, dx, dy) ==
  [position |-> Position(Add(initialState.pos.x, dx), Add(initialState.pos.y, dy))]

\* Math.atan2(y, x) * (180 / Math.PI)
Atan2Deg(y, x) ==
  LET sy == IF y[1] > 0 THEN 1 ELSE IF y[1] < 0 THEN -1 ELSE 0
      sx == IF x[1] > 0 THEN 1 ELSE IF x[1] < 0 THEN -1 ELSE 0
      ay == Rat(Abs(y[1]), y[2])
      ax == Rat(Abs(x[1]), x[2])
      \* the direction as coprime integers
      iy == y[1] * x[2]
      ix == x[1] * y[2]
      g  == Gcd(Abs(iy), Abs(ix))
      dir == <<iy \div g, ix \div g>>
  IN  IF sy = 0 THEN Angle(N(IF sx < 0 THEN 180 ELSE 0), <<0, 0>>)
      ELSE IF sx = 0 THEN Angle(N(90 * sy), <<0, 0>>)
      ELSE IF ay = ax THEN Angle(N(sy * (IF sx > 0 THEN 45 ELSE 135)), <<0, 0>>)
      ELSE IF sy > 0
        THEN Angle(N(IF sx > 0 THEN (IF Lt(ay, ax) THEN 0 ELSE 45)
                              ELSE (IF Lt(ay, ax) THEN 135 ELSE 90)), dir)
        ELSE Angle(N(IF sx > 0 THEN (IF Lt(ay, ax) THEN -45 ELSE -90)
                              ELSE (IF Lt(ay, ax) THEN -180 ELSE -135)), dir)

\* variant of itemCenter_unscaled: the centre of the full box
itemCenter_fullBox(initialState) ==
  [x |-> Add(initialState.pos.x, Div(initialState.size.width, N(2))),
   y |-> Add(initialState.pos.y, Div(initialState.size.height, N(2)))]

\* itemCenterX_unscaled, itemCenterY_unscaled: the centre of the visible
\* region of the snapshot, in canvas units
itemCenter_unscaled(initialState) ==
  LET visW_pct == Div(Sub(Sub(N(100), initialState.crop.left), initialState.crop.right), N(100))
      visH_pct == Div(Sub(Sub(N(100), initialState.crop.top), initialState.crop.bottom), N(100))
      offX == Mul(initialState.size.width, Div(initialState.crop.left, N(100)))
      offY == Mul(initialState.size.height, Div(initialState.crop.top, N(100)))
  IN  [x |-> Add(Add(initialState.pos.x, offX), Div(Mul(initialState.size.width, visW_pct), N(2))),
       y |-> Add(Add(initialState.pos.y, offY), Div(Mul(initialState.size.height, visH_pct), N(2)))]

\* variant of calculateRotationUpdate without the quarter turn
calculateRotationUpdate_noQuarterTurn(e, initialState, scale, canvasRect) ==
  LET c == itemCenter_unscaled(initialState)
  IN  [rotation |-> Atan2Deg(Sub(N(e.clientY), Add(canvasRect.top, Mul(c.y, scale))),
                             Sub(N(e.clientX), Add(canvasRect.left, Mul(c.x, scale))))]

calculateRotationUpdate(e, initialState, scale, canvasRect) ==
  LET itemCenterX_unscaled == itemCenter_unscaled(initialState).x
      itemCenterY_unscaled == itemCenter_unscaled(initialState).y
      screenCenterX == Add(canvasRect.left, Mul(itemCenterX_unscaled, scale))
      screenCenterY == Add(canvasRect.top, Mul(itemCenterY_unscaled, scale))
      angle == Atan2Deg(Sub(N(e.clientY), screenCenterY), Sub(N(e.clientX), screenCenterX))
  IN  [rotation |-> Angle(Add(angle.deg, N(90)), angle.dir)]

\* the render of a layer: transform-origin in percent of the full box
transformOrigin(item) ==
  [originX |-> Add(item.crop.left,
                   Div(Sub(Sub(N(100), item.crop.left), item.crop.right), N(2))),
   originY |-> Add(item.crop.top,
                   Div(Sub(Sub(N(100), item.crop.top), item.crop.bottom), N(2)))]

\* variant of resizeEffectiveDx without the crop compensation
resizeEffectiveDx_uncompensated(dx, initialState) == dx

\* effectiveDx: the delta scaled up by 1 / visW_pct above the 0.05 floor
resizeEffectiveDx(dx, initialState) ==
  LET visW_pct == Div(Sub(Sub(N(100), initialState.crop.left), initialState.crop.right), N(100))
      scaleX == IF Lt(Rat(5, 100), visW_pct) THEN Div(N(1), visW_pct) ELSE N(1)
  IN  Mul(dx, scaleX)

\* variant of resizeWidth without the floor of 50
resizeWidth_noFloor(dragMode, effectiveDx, initialState) ==
  IF dragMode \in {"RESIZE_TL", "RESIZE_BL"}
  THEN Sub(initialState.size.width, effectiveDx)
  ELSE Add(initialState.size.width, effectiveDx)

\* variant of resizeWidth with Math.min in place of Math.max
resizeWidth_minFloor(dragMode, effectiveDx, initialState) ==
  IF dragMode \in {"RESIZE_TL", "RESIZE_BL"}
  THEN Min(N(50), Sub(initialState.size.width, effectiveDx))
  ELSE Min(N(50), Add(initialState.size.width, effectiveDx))

\* newWidth of the four cases of the switch
resizeWidth(dragMode, effectiveDx, initialState) ==
  IF dragMode \in {"RESIZE_TL", "RESIZE_BL"}
  THEN Max(N(50), Sub(initialState.size.width, effectiveDx))
  ELSE IF dragMode \in {"RESIZE_TR", "RESIZE_BR"}
  THEN Max(N(50), Add(initialState.size.width, effectiveDx))
  ELSE initialState.size.width

\* variant of resizeHeight with a floor of 50 of its own
resizeHeight_clamped(newWidth, initialState) ==
  Max(N(50), Div(newWidth, Div(initialState.size.width, initialState.size.height)))

\* newHeight = newWidth / aspectRatio
resizeHeight(newWidth, initialState) ==
  LET aspectRatio == Div(initialState.size.width, initialState.size.height)
  IN  Div(newWidth, aspectRatio)

\* variant of resizePosition whose top-right case keeps y
resizePosition_topRightKeepsY(dragMode, newWidth, newHeight, initialState) ==
  Position(IF dragMode \in {"RESIZE_TL", "RESIZE_BL"}
           THEN Add(initialState.pos.x, Sub(initialState.size.width, newWidth))
           ELSE initialState.pos.x,
           IF dragMode = "RESIZE_TL"
           THEN Add(initialState.pos.y, Sub(initialState.size.height, newHeight))
           ELSE initialState.pos.y)

\* newX, newY of the four cases of the switch
resizePosition(dragMode, newWidth, newHeight, initialState) ==
  LET newX == IF dragMode \in {"RESIZE_TL", "RESIZE_BL"}
              THEN Add(initialState.pos.x, Sub(initialState.size.width, newWidth))
              ELSE initialState.pos.x
      newY == IF dragMode \in {"RESIZE_TL", "RESIZE_TR"}
              THEN Add(initialState.pos.y, Sub(initialState.size.height, newHeight))
              ELSE initialState.pos.y
  IN  Position(newX, newY)

calculateResizeUpdate(dragMode, dx, initialState) ==
  LET effectiveDx == resizeEffectiveDx(dx, initialState)
      newWidth == resizeWidth(dragMode, effectiveDx, initialState)
      newHeight == IF dragMode \in ResizeModes THEN resizeHeight(newWidth, initialState)
                   ELSE initialState.size.height
  IN  [size |-> Size(newWidth, newHeight),
       position |-> resizePosition(dragMode, newWidth, newHeight, initialState)]

\* pxToPctX, pxToPctY: a canvas-space length as a percentage of the full box
pxToPctX(val, initialState) == Mul(Div(val, initialState.size.width), N(100))

\* variant of pxToPctY that divides by the width
pxToPctY_usesWidth(val, initialState) == Mul(Div(val, initialState.size.width), N(100))

pxToPctY(val, initialState) == Mul(Div(val, initialState.size.height), N(100))

\* variant of cropClamp with a budget of 100
cropClamp_budget100(inset, opposite) == Min(Max(N(0), inset), Sub(N(100), opposite))

\* variant of cropClamp without the lower bound 0
cropClamp_noLowerBound(inset, opposite) == Min(inset, Sub(N(90), opposite))

\* Math.min(Math.max(0, inset), 90 - opposite)
cropClamp(inset, opposite) == Min(Max(N(0), inset), Sub(N(90), opposite))

calculateCropUpdate(dragMode, dx, dy, initialState) ==
  LET c == initialState.crop
      top == IF dragMode = "CROP_T"
             THEN cropClamp(Add(c.top, pxToPctY(dy, initialState)), c.bottom)
             ELSE c.top
      bottom == IF dragMode = "CROP_B"
                THEN cropClamp(Sub(c.bottom, pxToPctY(dy, initialState)), c.top)
                ELSE c.bottom
      left == IF dragMode = "CROP_L"
              THEN cropClamp(Add(c.left, pxToPctX(dx, initialState)), c.right)
              ELSE c.left
      right == IF dragMode = "CROP_R"
               THEN cropClamp(Sub(c.right, pxToPctX(dx, initialState)), c.left)
               ELSE c.right
  IN  [crop |-> Crop(top, bottom, left, right)]

(***************************************************************************)
(* Initial size of a layer: src/utils/imageUtils.ts                        *)
(***************************************************************************)
calculateInitialSize(imgWidth, imgHeight, targetSize) ==
  LET aspectRatio == Div(imgWidth, imgHeight)
  IN  IF Lt(N(1), aspectRatio)
      THEN Size(targetSize, Div(targetSize, aspectRatio))
      ELSE Size(Mul(targetSize, aspectRatio), targetSize)

(***************************************************************************)
(* Bounds and input sets                                                   *)
(***************************************************************************)
\* uploads of source images in one behaviour of the layer collection
MaxUploads == 3
\* uploads of source images in one behaviour with gestures
MaxLayers == 2
\* readings of the millisecond clock
MaxClock == 2
\* gestures (pointer-downs) in one behaviour
MaxGestures == 1

AppMovePoints ==
  {[clientX |-> 300 + ddx, clientY |-> 300 + 30] : ddx \in {-500, 30}}

\* natural sizes of the background images that can be set as the scene
Backgrounds == {[width |-> 800, height |-> 600]}
\* client sizes of the canvas container
Containers == {[width |-> 840, height |-> 640]}
\* natural sizes of the source images that can be uploaded
Sources == {[width |-> 1200, height |-> 100]}
\* values of Math.random(), which lie in [0, 1)
Randoms == {Rat(1, 2)}
\* pointer positions of events, in screen pixels
DownPoints == {[clientX |-> 300, clientY |-> 300]}
MovePoints ==
  {[clientX |-> 300 + ddx, clientY |-> 300 + ddy] : ddx \in {-400, -50, 0, 30}, ddy \in {-20, 0, 30}}

(***************************************************************************)
(* State                                                                   *)
(***************************************************************************)
VARIABLES
  \* App (src/App.tsx)
  items,             \* state.items: sequence of layers, in array order
  selectedItemId,    \* state.selectedItemId
  baseImage,         \* state.baseImage: Null or Some(image)
  canvasDimensions,  \* state.canvasDimensions: Null or Some(size)
  draggingItemRef,   \* visual index of the list entry being dragged, or Null
  dragOverItemRef,   \* visual index of the list entry dragged over, or Null
  uploads,           \* bag of the uploads picked and not yet inserted
  processing,        \* bag of the ids of processLayer calls suspended at the extraction
  clock,             \* the last value Date.now() returned
  caption,           \* state.caption: Null or Some(text)
  hasBorder,         \* state.hasBorder
  files,             \* the project files saved, each with the state it was saved from
  compositing,       \* bag of the updateCompositing calls suspended at applyMask
  \* Canvas (src/components/Canvas.tsx)
  dragMode, startPos, initialItemState,
  listeners,         \* the window mousemove and mouseup listeners are registered
  scale, baseDimensions,
  loading,           \* background images whose onload has not fired yet
  container,         \* client size of the container element
  \* history
  lastMove,          \* the last pointer-move handled in the current gesture
  pressedId,         \* id of the layer the current gesture was started on
  lastOp,            \* the last operation on the layer collection
  resized,           \* ids of the layers whose size a resize patch has set
  nGestures,         \* pointer-downs so far
  nUploads           \* uploads of source images so far

appVars == <<items, selectedItemId, baseImage, canvasDimensions, draggingItemRef,
             dragOverItemRef, uploads, processing, clock, caption, hasBorder, files, compositing>>
gestureVars == <<dragMode, startPos, initialItemState, listeners>>
viewVars == <<scale, baseDimensions, loading, container>>
canvasVars == <<scale, baseDimensions, container>>
histVars == <<lastMove, pressedId, lastOp, resized, nGestures, nUploads>>
vars == <<appVars, gestureVars, viewVars, histVars>>

Ids == {items[i].id : i \in DOMAIN items}
RemoveAt(s, i) == SubSeq(s, 1, i - 1) \o SubSeq(s, i + 1, Len(s))
InsertAt(s, i, v) == SubSeq(s, 1, i - 1) \o <<v>> \o SubSeq(s, i, Len(s))
MaxOf(S) == CHOOSE m \in S : \A n \in S : n <= m

\* state after construction: src/App.tsx useState, src/components/Canvas.tsx useState
InitApp ==
  /\ items = <<>>
  /\ selectedItemId = NullId
  /\ baseImage = Null
  /\ canvasDimensions = Null
  /\ draggingItemRef = Null
  /\ dragOverItemRef = Null
  /\ uploads = EmptyBag
  /\ processing = EmptyBag
  /\ clock = 1
  /\ caption = Null
  /\ hasBorder = FALSE
  /\ files = {} /\ compositing = EmptyBag
InitCanvas ==
  /\ dragMode = "NONE"
  /\ listeners = FALSE
  /\ startPos = [x |-> 0, y |-> 0]
  /\ initialItemState = Null
  /\ scale = N(1)
  /\ baseDimensions = Null
  /\ loading = {}
InitHist ==
  /\ lastMove = Null
  /\ pressedId = NullId
  /\ lastOp = "none"
  /\ resized = {}
  /\ nGestures = 0
  /\ nUploads = 0


(***************************************************************************)
(* Viewport scale: src/components/Canvas.tsx                               *)
(***************************************************************************)
\* variant of updateScale that fits the width only
updateScale_widthOnly(cont, dims) ==
  Rat(cont.width - 40, dims.width)

\* updateScale: the "fit inside" factor for a container and a canvas size
updateScale(cont, dims) ==
  LET padding == 40
      availW == cont.width - padding
      availH == cont.height - padding
      scaleW == Rat(availW, dims.width)
      scaleH == Rat(availH, dims.height)
  IN  Min(scaleW, scaleH)

\* canvasStyle: the logical size of the canvas surface
canvasStyle(dims) ==
  IF dims # Null THEN dims[1] ELSE [width |-> 800, height |-> 600]

\* getBoundingClientRect of the canvas surface: centred in the container
\* (top-1/2 left-1/2, translate(-50%, -50%)) and scaled about its centre
canvasRect(cont, dims, sc) ==
  [left |-> Sub(Rat(cont.width, 2), Div(Mul(N(canvasStyle(dims).width), sc), N(2))),
   top |-> Sub(Rat(cont.height, 2), Div(Mul(N(canvasStyle(dims).height), sc), N(2)))]

\* Every setState of the App renders it again. handleCanvasDimensions is a
\* new function in each render, and the base image effect of the Canvas,
\* which depends on it, runs again: a mounted Canvas starts another load of
\* the current background.
rerender ==
  loading' = IF baseImage # Null THEN loading \cup {baseImage[1]} ELSE loading

\* handleBaseImageUpload, and the effect that starts loading the image
handleBaseImageUpload(b) ==
  /\ baseImage' = Some(b)
  /\ loading' = loading \cup {b}
  /\ UNCHANGED <<items, selectedItemId, canvasDimensions, draggingItemRef,
                 dragOverItemRef, uploads, processing, clock, caption, hasBorder, files, compositing>>
  /\ UNCHANGED <<gestureVars, scale, baseDimensions, container, histVars>>

\* img.onload: setBaseDimensions, onDimensionsLoaded (handleCanvasDimensions),
\* the scale effect that runs on the new baseDimensions, and the base image
\* effect that runs again after the render of the App
imgOnload(b) ==
  /\ b \in loading
  /\ loading' = (loading \ {b}) \cup {baseImage[1]}
  /\ baseDimensions' = Some(b)
  /\ canvasDimensions' = Some(b)
  /\ scale' = updateScale(container, b)
  /\ UNCHANGED <<items, selectedItemId, baseImage, draggingItemRef,
                 dragOverItemRef, uploads, processing, clock, caption, hasBorder, files, compositing>>
  /\ UNCHANGED <<gestureVars, container, histVars>>

\* the ResizeObserver callback: the container has a new client size
containerResized(c) ==
  /\ c # container
  /\ container' = c
  /\ scale' = IF baseDimensions # Null THEN updateScale(c, baseDimensions[1]) ELSE scale
  /\ UNCHANGED <<appVars, gestureVars, baseDimensions, loading, histVars>>

(***************************************************************************)
(* Gesture controller: src/components/Canvas.tsx                           *)
(***************************************************************************)
\* updateItem (src/App.tsx): the patch is merged into every layer with that id
updateItem(its, id, updates) ==
  [i \in DOMAIN its |-> IF its[i].id = id THEN Merge(its[i], updates) ELSE its[i]]

\* variant of handleMouseDown without stopPropagation: the press on a handle
\* also reaches the handler of the layer, whose mode is set last
handleMouseDown_bubbles(e, i, mode) ==
  /\ baseImage # Null
  /\ i \in DOMAIN items
  /\ mode \in DragMode \ {"NONE"}
  /\ mode = "DRAG" \/ selectedItemId = items[i].id
  /\ selectedItemId' = items[i].id
  /\ dragMode' = "DRAG"
  /\ listeners' = TRUE
  /\ startPos' = [x |-> e.clientX, y |-> e.clientY]
  /\ initialItemState' = Some([pos |-> items[i].position, size |-> items[i].size,
                               rotation |-> items[i].rotation, crop |-> items[i].crop])
  /\ lastMove' = Null
  /\ pressedId' = items[i].id
  /\ UNCHANGED <<items, baseImage, canvasDimensions, draggingItemRef, dragOverItemRef,
                 uploads, processing, clock, caption, hasBorder, files, compositing, canvasVars,
                 lastOp, resized, nUploads>>
  /\ rerender

\* the handles of a layer are rendered only while it is selected; the layer
\* itself always takes a press (DRAG)
handleMouseDown(e, i, mode) ==
  /\ baseImage # Null
  /\ i \in DOMAIN items
  /\ mode \in DragMode \ {"NONE"}
  /\ mode = "DRAG" \/ selectedItemId = items[i].id
  /\ selectedItemId' = items[i].id
  /\ dragMode' = mode
  /\ listeners' = TRUE
  /\ startPos' = [x |-> e.clientX, y |-> e.clientY]
  /\ initialItemState' = Some([pos |-> items[i].position, size |-> items[i].size,
                               rotation |-> items[i].rotation, crop |-> items[i].crop])
  /\ lastMove' = Null
  /\ pressedId' = items[i].id
  /\ UNCHANGED <<items, baseImage, canvasDimensions, draggingItemRef, dragOverItemRef,
                 uploads, processing, clock, caption, hasBorder, files, compositing, canvasVars,
                 lastOp, resized, nUploads>>
  /\ rerender

\* variant of movePatch whose deltas are not divided by the scale
movePatch_unscaled(mode, e, start, snap, sc, rect) ==
  LET dx == N(e.clientX - start.x)
      dy == N(e.clientY - start.y)
  IN  IF mode = "DRAG" THEN calculateDragUpdate(snap, dx, dy)
      ELSE IF mode = "ROTATE" THEN calculateRotationUpdate(e, snap, sc, rect)
      ELSE IF mode \in ResizeModes THEN calculateResizeUpdate(mode, dx, snap)
      ELSE calculateCropUpdate(mode, dx, dy, snap)

\* the patch handleMouseMove computes for an event
movePatch(mode, e, start, snap, sc, rect) ==
  LET dx == Div(N(e.clientX - start.x), sc)
      dy == Div(N(e.clientY - start.y), sc)
  IN  IF mode = "DRAG" THEN calculateDragUpdate(snap, dx, dy)
      ELSE IF mode = "ROTATE" THEN calculateRotationUpdate(e, snap, sc, rect)
      ELSE IF mode \in ResizeModes THEN calculateResizeUpdate(mode, dx, snap)
      ELSE calculateCropUpdate(mode, dx, dy, snap)

\* variant of handleMouseMove that computes the patch from the live layer
handleMouseMove_liveLayer(e) ==
  /\ listeners
  /\ IF dragMode = "NONE" \/ selectedItemId = NullId \/ initialItemState = Null
        \/ selectedItemId \notin Ids
     THEN UNCHANGED <<items, lastMove, resized, loading>>
     ELSE /\ items' = updateItem(items, selectedItemId,
                        LET live == CHOOSE it \in {items[i] : i \in DOMAIN items} :
                                      it.id = selectedItemId
                        IN  movePatch(dragMode, e, startPos,
                                      [pos |-> live.position, size |-> live.size,
                                       rotation |-> live.rotation, crop |-> live.crop],
                                      scale, canvasRect(container, baseDimensions, scale)))
          /\ lastMove' = Some(e)
          /\ rerender
          /\ resized' = IF dragMode \in ResizeModes /\ selectedItemId \in Ids
                        THEN resized \cup {selectedItemId} ELSE resized
  /\ UNCHANGED <<selectedItemId, baseImage, canvasDimensions, draggingItemRef,
                 dragOverItemRef, uploads, processing, clock, caption, hasBorder, files, compositing>>
  /\ UNCHANGED <<gestureVars, canvasVars, pressedId, lastOp, nGestures, nUploads>>

\* variant of handleMouseMove without the test of selectedItemId
handleMouseMove_anySelection(e) ==
  /\ listeners
  /\ IF dragMode = "NONE" \/ initialItemState = Null
     THEN UNCHANGED <<items, lastMove, resized, loading>>
     ELSE /\ items' = updateItem(items, selectedItemId,
                        movePatch(dragMode, e, startPos, initialItemState[1], scale,
                                  canvasRect(container, baseDimensions, scale)))
          /\ lastMove' = Some(e)
          /\ rerender
          /\ resized' = IF dragMode \in ResizeModes /\ selectedItemId \in Ids
                        THEN resized \cup {selectedItemId} ELSE resized
  /\ UNCHANGED <<selectedItemId, baseImage, canvasDimensions, draggingItemRef,
                 dragOverItemRef, uploads, processing, clock, caption, hasBorder, files, compositing>>
  /\ UNCHANGED <<gestureVars, canvasVars, pressedId, lastOp, nGestures, nUploads>>

\* the window mousemove listener
handleMouseMove(e) ==
  /\ listeners
  /\ IF dragMode = "NONE" \/ selectedItemId = NullId \/ initialItemState = Null
     THEN UNCHANGED <<items, lastMove, resized, loading>>
     ELSE /\ items' = updateItem(items, selectedItemId,
                        movePatch(dragMode, e, startPos, initialItemState[1], scale,
                                  canvasRect(container, baseDimensions, scale)))
          /\ lastMove' = Some(e)
          /\ rerender
          /\ resized' = IF dragMode \in ResizeModes /\ selectedItemId \in Ids
                        THEN resized \cup {selectedItemId} ELSE resized
  /\ UNCHANGED <<selectedItemId, baseImage, canvasDimensions, draggingItemRef,
                 dragOverItemRef, uploads, processing, clock, caption, hasBorder, files, compositing>>
  /\ UNCHANGED <<gestureVars, canvasVars, pressedId, lastOp, nGestures, nUploads>>

\* variant of handleMouseUp that keeps the snapshot
handleMouseUp_keepsSnapshot ==
  /\ listeners
  /\ dragMode' = "NONE"
  /\ listeners' = FALSE
  /\ lastMove' = Null
  /\ pressedId' = NullId
  /\ UNCHANGED <<appVars, startPos, initialItemState, viewVars, lastOp, resized,
                 nGestures, nUploads>>

\* the window mouseup listener
handleMouseUp ==
  /\ listeners
  /\ dragMode' = "NONE"
  /\ listeners' = FALSE
  /\ initialItemState' = Null
  /\ lastMove' = Null
  /\ pressedId' = NullId
  /\ UNCHANGED <<appVars, startPos, viewVars, lastOp, resized, nGestures, nUploads>>

\* a click whose target is the container or the canvas surface
handleBackgroundClick ==
  /\ baseImage # Null
  /\ selectedItemId' = NullId
  /\ UNCHANGED <<items, baseImage, canvasDimensions, draggingItemRef, dragOverItemRef,
                 uploads, processing, clock, caption, hasBorder, files, compositing>>
  /\ UNCHANGED <<gestureVars, canvasVars, histVars>>
  /\ rerender


\* variant of handleClick that ignores the target
handleClick_anyTarget(target) ==
  /\ baseImage # Null
  /\ selectedItemId' = NullId
  /\ UNCHANGED <<items, baseImage, canvasDimensions, draggingItemRef, dragOverItemRef,
                 uploads, processing, clock, caption, hasBorder, files, compositing>>
  /\ UNCHANGED <<gestureVars, canvasVars, histVars>>
  /\ rerender

\* handleBackgroundClick for a click with any target: only the container
\* and the canvas surface clear the selection
handleClick(target) ==
  /\ baseImage # Null
  /\ selectedItemId' = IF target \in {"containerRef", "exportRef"} THEN NullId
                       ELSE selectedItemId
  /\ UNCHANGED <<items, baseImage, canvasDimensions, draggingItemRef, dragOverItemRef,
                 uploads, processing, clock, caption, hasBorder, files, compositing>>
  /\ UNCHANGED <<gestureVars, canvasVars, histVars>>
  /\ IF target \in {"containerRef", "exportRef"} THEN rerender ELSE UNCHANGED loading

(***************************************************************************)
(* Layer collection and z-order: src/App.tsx                               *)
(***************************************************************************)
\* the CollageItem handleSourceImageUpload builds (geometry, processing and
\* extraction fields; the source image, style and name are not modelled)
newItem(newId, pos, size, z) ==
  [id |-> newId, aiOutputSrc |-> Null, processedSrc |-> Null, invertMask |-> FALSE,
   isProcessing |-> TRUE, position |-> pos, size |-> size,
   crop |-> Crop(N(0), N(0), N(0), N(0)), zIndex |-> z,
   rotation |-> Angle(N(0), <<0, 0>>)]

\* maxZ as handleSourceImageUpload reads it from the items of its render
maxZOf(its) == IF Len(its) > 0 THEN MaxOf({its[i].zIndex : i \in DOMAIN its}) ELSE 0

\* setState(prev => ...) of handleSourceImageUpload, then processLayer starts
insertItem(item) ==
  /\ items' = Append(items, item)
  /\ selectedItemId' = item.id
  /\ processing' = processing (+) SetToBag({item.id})
  /\ lastOp' = "add"

\* The "Add Object" input and handleSourceImageUpload up to the insertion.
\* The input is disabled while a layer is processing; its change handler
\* awaits fileToBase64 and then calls the handleSourceImageUpload of the render
\* in which the file was picked, which reads maxZ and the canvas dimensions of
\* that render and, with the canvas dimensions known, awaits loadImage. The
\* call is suspended from the pick to the insertion; now is the value
\* Date.now() returns, not earlier than the value of the last call.
handleSourceImageUpload(src, now) ==
  /\ baseImage # Null
  /\ \A i \in DOMAIN items : ~items[i].isProcessing
  /\ now >= clock
  /\ clock' = now
  /\ UNCHANGED <<caption, hasBorder, files, compositing>>
  /\ nUploads' = nUploads + 1
  /\ uploads' = uploads (+) SetToBag({[newId |-> now, maxZ |-> maxZOf(items),
                                        canvas |-> canvasDimensions, src |-> src]})
  /\ UNCHANGED <<items, selectedItemId, processing, lastOp>>
  /\ UNCHANGED <<baseImage, canvasDimensions, draggingItemRef, dragOverItemRef>>
  /\ UNCHANGED <<gestureVars, viewVars, lastMove, pressedId, resized, nGestures>>

\* the initial size and position of a layer on a canvas of known dimensions
initialPlacement(canvas, src, loaded, rx, ry) ==
  LET smaller == IF canvas.width < canvas.height THEN canvas.width ELSE canvas.height
      targetSize == Mul(N(smaller), Rat(9, 10))
      size == IF loaded
              THEN calculateInitialSize(N(src.width), N(src.height), targetSize)
              ELSE Size(targetSize, targetSize)
      padding == N(50)
      maxX == Max(padding, Sub(Sub(N(canvas.width), size.width), padding))
      maxY == Max(padding, Sub(Sub(N(canvas.height), size.height), padding))
      minX == padding
      minY == padding
  IN  [size |-> size,
       position |-> Position(Add(Mul(rx, Sub(maxX, minX)), minX),
                             Add(Mul(ry, Sub(maxY, minY)), minY))]

\* handleSourceImageUpload resumed: with the canvas dimensions unknown the
\* layer is 200 x 200 at (200, 200); otherwise the image loaded or failed, and
\* rx, ry are the two values of Math.random()
uploadResumed(u, loaded, rx, ry) ==
  /\ BagIn(u, uploads)
  /\ IF u.canvas = Null
     THEN insertItem(newItem(u.newId, Position(N(200), N(200)), Size(N(200), N(200)),
                             u.maxZ + 1))
     ELSE LET p == initialPlacement(u.canvas[1], u.src, loaded, rx, ry)
          IN  insertItem(newItem(u.newId, p.position, p.size, u.maxZ + 1))
  /\ uploads' = uploads (-) SetToBag({u})
  /\ UNCHANGED <<baseImage, canvasDimensions, draggingItemRef, dragOverItemRef, clock,
                 caption, hasBorder, files, compositing>>
  /\ UNCHANGED <<gestureVars, canvasVars, lastMove, pressedId, resized, nGestures, nUploads>>
  /\ rerender

\* images the extraction service can return
AiImages == {1}

\* applyMask(originalSrc, aiOutputSrc, invert): the composite shown for a layer
applyMask(ai, invert) == [from |-> ai, invert |-> invert]

\* processLayer after extractObjectFromImage resolved with the image ai
extractionResolved(id, ai) ==
  /\ BagIn(id, processing)
  /\ items' = updateItem(items, id, [aiOutputSrc |-> Some(ai),
                                     processedSrc |-> Some(applyMask(ai, FALSE)),
                                     invertMask |-> FALSE, isProcessing |-> FALSE])
  /\ processing' = processing (-) SetToBag({id})
  /\ UNCHANGED <<selectedItemId, baseImage, canvasDimensions, draggingItemRef,
                 dragOverItemRef, uploads, clock, caption, hasBorder, files, compositing>>
  /\ UNCHANGED <<gestureVars, canvasVars, histVars>>
  /\ rerender

\* variant of extractionRejected that drops the images of the layer
extractionRejected_dropsImages(id) ==
  /\ BagIn(id, processing)
  /\ items' = updateItem(items, id, [aiOutputSrc |-> Null, processedSrc |-> Null,
                                     isProcessing |-> FALSE])
  /\ processing' = processing (-) SetToBag({id})
  /\ UNCHANGED <<selectedItemId, baseImage, canvasDimensions, draggingItemRef,
                 dragOverItemRef, uploads, clock, caption, hasBorder, files, compositing>>
  /\ UNCHANGED <<gestureVars, canvasVars, histVars>>
  /\ rerender

\* variant of extractionRejected that leaves isProcessing set
extractionRejected_staysProcessing(id) ==
  /\ BagIn(id, processing)
  /\ processing' = processing (-) SetToBag({id})
  /\ UNCHANGED <<items, selectedItemId, baseImage, canvasDimensions, draggingItemRef,
                 dragOverItemRef, uploads, clock, caption, hasBorder, files, compositing>>
  /\ UNCHANGED <<gestureVars, canvasVars, histVars>>
  /\ rerender

\* processLayer's catch branch: the extraction, the analysis or the masking
\* threw; only isProcessing is written
extractionRejected(id) ==
  /\ BagIn(id, processing)
  /\ items' = updateItem(items, id, [isProcessing |-> FALSE])
  /\ processing' = processing (-) SetToBag({id})
  /\ UNCHANGED <<selectedItemId, baseImage, canvasDimensions, draggingItemRef,
                 dragOverItemRef, uploads, clock, caption, hasBorder, files, compositing>>
  /\ UNCHANGED <<gestureVars, canvasVars, histVars>>
  /\ rerender

\* processLayer after the extraction settled, resolved or rejected
extractionSettled(id) ==
  \/ \E ai \in AiImages : extractionResolved(id, ai)
  \/ extractionRejected(id)

\* variant of removeItem that leaves the selection as it is
removeItem_keepsSelection(id) ==
  /\ baseImage # Null
  /\ id # NullId
  /\ id = selectedItemId
  /\ \E i \in DOMAIN items : items[i].id = id /\ ~items[i].isProcessing
  /\ items' = SelectSeq(items, LAMBDA item : item.id # id)
  /\ lastOp' = "remove"
  /\ resized' = resized \ {id}
  /\ UNCHANGED <<selectedItemId, baseImage, canvasDimensions, draggingItemRef,
                 dragOverItemRef, uploads, processing, clock, caption, hasBorder, files, compositing>>
  /\ UNCHANGED <<gestureVars, canvasVars, lastMove, pressedId, nGestures, nUploads>>
  /\ rerender

\* the Delete button of the settings panel: shown for the selected layer,
\* disabled while it is processing
removeItem(id) ==
  /\ baseImage # Null
  /\ id # NullId
  /\ id = selectedItemId
  /\ \E i \in DOMAIN items : items[i].id = id /\ ~items[i].isProcessing
  /\ items' = SelectSeq(items, LAMBDA item : item.id # id)
  /\ selectedItemId' = NullId
  /\ lastOp' = "remove"
  /\ resized' = resized \ {id}
  /\ UNCHANGED <<baseImage, canvasDimensions, draggingItemRef, dragOverItemRef,
                 uploads, processing, clock, caption, hasBorder, files, compositing>>
  /\ UNCHANGED <<gestureVars, canvasVars, lastMove, pressedId, nGestures, nUploads>>
  /\ rerender

\* a click on an entry of the layer list
selectItem(id) ==
  /\ baseImage # Null
  /\ id \in Ids
  /\ selectedItemId' = id
  /\ UNCHANGED <<items, baseImage, canvasDimensions, draggingItemRef, dragOverItemRef,
                 uploads, processing, clock, caption, hasBorder, files, compositing>>
  /\ UNCHANGED <<gestureVars, canvasVars, histVars>>
  /\ rerender

\* the list shows the layers top-most first; index is a visual index
onDragStart(index) ==
  /\ baseImage # Null
  /\ index \in 0 .. Len(items) - 1
  /\ draggingItemRef' = Some(index)
  /\ UNCHANGED <<items, selectedItemId, baseImage, canvasDimensions, dragOverItemRef,
                 uploads, processing, clock, caption, hasBorder, files, compositing>>
  /\ UNCHANGED <<gestureVars, viewVars, histVars>>

onDragEnter(index) ==
  /\ baseImage # Null
  /\ index \in 0 .. Len(items) - 1
  /\ dragOverItemRef' = Some(index)
  /\ UNCHANGED <<items, selectedItemId, baseImage, canvasDimensions, draggingItemRef,
                 uploads, processing, clock, caption, hasBorder, files, compositing>>
  /\ UNCHANGED <<gestureVars, viewVars, histVars>>

\* Array.prototype.splice's start: counted from the end when negative, clamped
\* to the length (as a 0-based index)
spliceStart(len, start) ==
  IF start < 0 THEN (IF len + start < 0 THEN 0 ELSE len + start)
  ELSE IF start > len THEN len ELSE start

\* variant of reorderedItems that does not renumber zIndex
reorderedItems_keepsZ(its, from, to) ==
  LET count == Len(its)
      f == spliceStart(count, count - 1 - from)
      without == RemoveAt(its, f + 1)
      t == spliceStart(count - 1, count - 1 - to)
  IN  InsertAt(without, t + 1, its[f + 1])

\* variant of reorderedItems that exchanges the two entries
reorderedItems_swap(its, from, to) ==
  LET count == Len(its)
      f == spliceStart(count, count - 1 - from) + 1
      t == spliceStart(count - 1, count - 1 - to) + 1
      swapped == [k \in DOMAIN its |-> IF k = f THEN its[t] ELSE IF k = t THEN its[f]
                                                   ELSE its[k]]
  IN  [index \in DOMAIN swapped |-> Merge(swapped[index], [zIndex |-> index])]

\* variant of reorderedItems that numbers zIndex from 0
reorderedItems_zeroBased(its, from, to) ==
  LET count == Len(its)
      f == spliceStart(count, count - 1 - from)
      without == RemoveAt(its, f + 1)
      t == spliceStart(count - 1, count - 1 - to)
      moved == InsertAt(without, t + 1, its[f + 1])
  IN  [index \in DOMAIN moved |-> Merge(moved[index], [zIndex |-> index - 1])]

\* the array handleSort builds: the dragged element moved, zIndex renumbered
reorderedItems(its, from, to) ==
  LET count == Len(its)
      fromArrayIndex == count - 1 - from
      toArrayIndex == count - 1 - to
      f == spliceStart(count, fromArrayIndex)
      draggedItemContent == its[f + 1]
      without == RemoveAt(its, f + 1)
      t == spliceStart(count - 1, toArrayIndex)
      moved == InsertAt(without, t + 1, draggedItemContent)
  IN  [index \in DOMAIN moved |-> Merge(moved[index], [zIndex |-> index])]

\* onDragEnd of a list entry
handleSort ==
  /\ baseImage # Null
  /\ draggingItemRef # Null
  /\ Len(items) > 0
  /\ IF dragOverItemRef = Null
     THEN UNCHANGED <<items, draggingItemRef, dragOverItemRef, lastOp, loading>>
     ELSE /\ items' = reorderedItems(items, draggingItemRef[1], dragOverItemRef[1])
          /\ draggingItemRef' = Null
          /\ dragOverItemRef' = Null
          /\ lastOp' = "reorder"
          /\ rerender
  /\ UNCHANGED <<selectedItemId, baseImage, canvasDimensions, uploads, processing, clock,
                 caption, hasBorder, files, compositing>>
  /\ UNCHANGED <<gestureVars, canvasVars, lastMove, pressedId, resized, nGestures, nUploads>>


(***************************************************************************)
(* Specifications                                                          *)
(***************************************************************************)
\* The application from construction: scene, uploads, extraction, selection,
\* removal and gestures, in a container of one size.
Init ==
  /\ InitApp /\ InitCanvas /\ InitHist
  /\ container \in Containers

pointerDown ==
  \E e \in DownPoints, i \in DOMAIN items, mode \in DragMode \ {"NONE"} :
    /\ nGestures < MaxGestures
    /\ handleMouseDown(e, i, mode)
    /\ nGestures' = nGestures + 1

sceneStep ==
  \/ \E b \in Backgrounds : baseImage = Null /\ handleBaseImageUpload(b)
  \/ \E b \in Backgrounds : imgOnload(b)

uploadStep(decoded, budget) ==
  \/ \E src \in Sources, now \in 1 .. MaxClock :
       nUploads < budget /\ handleSourceImageUpload(src, now)
  \/ \E u \in BagToSet(uploads), loaded \in decoded, rx \in Randoms, ry \in Randoms :
       uploadResumed(u, loaded, rx, ry)
  \/ \E id \in BagToSet(processing) : extractionSettled(id)

selectStep ==
  \/ \E id \in Ids : removeItem(id)
  \/ \E id \in Ids : selectItem(id)

Next ==
  \/ sceneStep
  \/ uploadStep(BOOLEAN, MaxLayers)
  \/ selectStep
  \/ pointerDown
  \/ \E e \in AppMovePoints : handleMouseMove(e)
  \/ handleMouseUp
  \/ handleBackgroundClick

Spec == Init /\ [][Next]_vars

\* The layer collection from construction: uploads, removal and drag-to-reorder
\* of the layer list; the layers keep the geometry they were created with.
NextLayers ==
  \/ sceneStep
  \/ uploadStep({TRUE}, MaxUploads)
  \/ selectStep
  \/ \E index \in 0 .. Len(items) - 1 : onDragStart(index)
  \/ \E index \in 0 .. Len(items) - 1 : onDragEnter(index)
  \/ handleSort

SpecLayers == Init /\ [][NextLayers]_vars

\* One layer in a state the editor can bring it to, and gestures on it.
GestureSizes == {Size(N(200), N(100)), Size(N(100), N(200)), Size(N(60), N(60))}
GestureCrops ==
  {Crop(N(0), N(0), N(0), N(0)), Crop(N(0), N(80), N(0), N(0)),
   Crop(N(0), N(0), N(50), N(0)), Crop(N(10), N(10), N(20), N(30)),
   Crop(N(0), N(0), N(50), N(40))}
GestureContainers ==
  {[width |-> 840, height |-> 640], [width |-> 440, height |-> 340],
   [width |-> 1640, height |-> 1240]}
GestureScene == [width |-> 800, height |-> 600]

InitOneLayer(sizes, crops, containers) ==
  /\ \E size \in sizes, crop \in crops :
       items = <<[newItem(1, Position(N(10), N(10)), size, 1)
                    EXCEPT !.crop = crop, !.isProcessing = FALSE]>>
  /\ selectedItemId = 1
  /\ baseImage = Some(GestureScene)
  /\ canvasDimensions = Some(GestureScene)
  /\ baseDimensions = Some(GestureScene)
  /\ container \in containers
  /\ scale = updateScale(container, GestureScene)
  /\ draggingItemRef = Null /\ dragOverItemRef = Null
  /\ uploads = EmptyBag /\ processing = EmptyBag /\ clock = 1
  /\ caption = Null /\ hasBorder = FALSE /\ files = {} /\ compositing = EmptyBag
  /\ dragMode = "NONE" /\ startPos = [x |-> 0, y |-> 0] /\ initialItemState = Null
  /\ listeners = FALSE
  /\ loading = {GestureScene}
  /\ InitHist

InitGesture == InitOneLayer(GestureSizes, GestureCrops, GestureContainers)

NextGesture ==
  \/ pointerDown
  \/ \E e \in MovePoints : handleMouseMove(e)
  \/ handleMouseUp

SpecGesture == InitGesture /\ [][NextGesture]_vars

\* A new layer, and crop gestures on it without end.
CropPoints ==
  {[clientX |-> 300 + ddx, clientY |-> 300 + ddy] : ddx \in {-80, 40, 200}, ddy \in {-80, 40, 200}}

InitCrop ==
  InitOneLayer({Size(N(200), N(200))}, {Crop(N(0), N(0), N(0), N(0))},
               {[width |-> 840, height |-> 640], [width |-> 440, height |-> 340]})

cropDown ==
  \E e \in DownPoints, mode \in CropModes :
    /\ handleMouseDown(e, 1, mode)
    /\ UNCHANGED nGestures

NextCrop ==
  \/ cropDown
  \/ \E e \in CropPoints : handleMouseMove(e)
  \/ handleMouseUp

SpecCrop == InitCrop /\ [][NextCrop]_vars

\* Two layers on a loaded scene, the first selected: presses on the layers
\* and on the handles of the selected one, moves, releases and clicks.
PointerPoints ==
  {[clientX |-> 130, clientY |-> 30], [clientX |-> 180, clientY |-> 80],
   [clientX |-> 130, clientY |-> 130], [clientX |-> 80, clientY |-> 80],
   [clientX |-> 120, clientY |-> 30], [clientX |-> 360, clientY |-> 260],
   [clientX |-> 330, clientY |-> 330], [clientX |-> 230, clientY |-> 30]}
PointerCrops == {Crop(N(0), N(0), N(0), N(0)), Crop(N(10), N(10), N(20), N(30))}
PointerContainers == {[width |-> 840, height |-> 640], [width |-> 1640, height |-> 1240]}
\* the elements a click can have as its target
ClickTargets == {"containerRef", "exportRef", "layer"}

InitPointer ==
  /\ \E crop \in PointerCrops :
       items = <<[newItem(1, Position(N(10), N(10)), Size(N(200), N(100)), 1)
                    EXCEPT !.crop = crop, !.isProcessing = FALSE],
                 [newItem(2, Position(N(300), N(200)), Size(N(100), N(200)), 2)
                    EXCEPT !.isProcessing = FALSE]>>
  /\ selectedItemId = 1
  /\ baseImage = Some(GestureScene)
  /\ canvasDimensions = Some(GestureScene)
  /\ baseDimensions = Some(GestureScene)
  /\ container \in PointerContainers
  /\ scale = updateScale(container, GestureScene)
  /\ draggingItemRef = Null /\ dragOverItemRef = Null
  /\ uploads = EmptyBag /\ processing = EmptyBag /\ clock = 2
  /\ caption = Null /\ hasBorder = FALSE /\ files = {} /\ compositing = EmptyBag
  /\ dragMode = "NONE" /\ startPos = [x |-> 0, y |-> 0] /\ initialItemState = Null
  /\ listeners = FALSE
  /\ loading = {GestureScene}
  /\ InitHist

NextPointer ==
  \/ pointerDown
  \/ \E e \in PointerPoints : handleMouseMove(e)
  \/ handleMouseUp
  \/ \E target \in ClickTargets : handleClick(target)

SpecPointer == InitPointer /\ [][NextPointer]_vars


(***************************************************************************)
(* Properties of one gesture (SpecGesture)                                 *)
(***************************************************************************)
\* the frozen snapshot, the layer under the gesture and the scale-adjusted
\* delta of the last pointer-move
Snap == initialItemState[1]
Layer == items[1]
GestureDx == Div(N(lastMove[1].clientX - startPos.x), scale)
GestureDy == Div(N(lastMove[1].clientY - startPos.y), scale)
\* a pointer-move of a gesture of one of the modes has been applied
Moved(modes) == dragMode \in modes /\ initialItemState # Null /\ lastMove # Null
\* the visible width fraction of the snapshot
SnapVisW == Div(Sub(Sub(N(100), Snap.crop.left), Snap.crop.right), N(100))
\* the unclamped width a resize asks for
AskedWidth ==
  IF dragMode \in {"RESIZE_TL", "RESIZE_BL"}
  THEN Sub(Snap.size.width, Div(GestureDx, SnapVisW))
  ELSE Add(Snap.size.width, Div(GestureDx, SnapVisW))

C5_AnchorFixed ==
  Moved(ResizeModes) =>
    LET right == Add(Layer.position.x, Layer.size.width)
        bottom == Add(Layer.position.y, Layer.size.height)
        right0 == Add(Snap.pos.x, Snap.size.width)
        bottom0 == Add(Snap.pos.y, Snap.size.height)
    IN  /\ dragMode = "RESIZE_BR" => Layer.position = Snap.pos
        /\ dragMode = "RESIZE_TL" => right = right0 /\ bottom = bottom0
        /\ dragMode = "RESIZE_TR" => Layer.position.x = Snap.pos.x /\ bottom = bottom0
        /\ dragMode = "RESIZE_BL" => right = right0 /\ Layer.position.y = Snap.pos.y

\* a top-right resize with the width clamp active that moved the top edge
C5_Witness ==
  /\ Moved({"RESIZE_TR"})
  /\ Lt(AskedWidth, N(50))
  /\ Layer.size.width = N(50)
  /\ Layer.position.y # Snap.pos.y

\* C6: after a pointer-move of a corner resize the full box has the
\* snapshot's aspect ratio: newWidth * height0 = newHeight * width0.
C6_AspectKept ==
  Moved(ResizeModes) =>
    Mul(Layer.size.width, Snap.size.height) = Mul(Layer.size.height, Snap.size.width)

\* a resize of a box that is not square, with the width clamp active
C6_Witness ==
  /\ Moved(ResizeModes)
  /\ Snap.size.width # Snap.size.height
  /\ Lt(AskedWidth, N(50))
  /\ Layer.size # Snap.size

\* C7: with visible width fraction v > 0.05 the new width is
\* max(50, width - dx / v) for the left corners and max(50, width + dx / v)
\* for the right corners, whatever dy is; and a 200 x 100 box without crop,
\* resized from the top-left by dx = -50, becomes 250 x 125, shifted by
\* (-50, -25).
C7_NewWidth ==
  Moved(ResizeModes) /\ Lt(Rat(5, 100), SnapVisW) =>
    /\ Layer.size.width = Max(N(50), AskedWidth)
    /\ (/\ dragMode = "RESIZE_TL"
        /\ Snap.size = Size(N(200), N(100))
        /\ Snap.crop = Crop(N(0), N(0), N(0), N(0))
        /\ GestureDx = N(-50))
       => /\ Layer.size = Size(N(250), N(125))
          /\ Layer.position = Position(Sub(Snap.pos.x, N(50)), Sub(Snap.pos.y, N(25)))

\* the example, reached with a pointer that also moved vertically, and a
\* cropped layer whose delta is scaled up
C7_Witness ==
  /\ Moved({"RESIZE_TL"})
  /\ Snap.size = Size(N(200), N(100))
  /\ Snap.crop = Crop(N(0), N(0), N(0), N(0))
  /\ GestureDx = N(-50)
  /\ GestureDy # N(0)
  /\ Layer.size = Size(N(250), N(125))

\* the horizontal position of the dragged handle: the left or the right edge
\* of the visible region of a box
HandleX(mode, pos, size, crop) ==
  IF mode \in {"RESIZE_TL", "RESIZE_BL"}
  THEN Add(pos.x, Div(Mul(size.width, crop.left), N(100)))
  ELSE Add(pos.x, Div(Mul(size.width, Sub(N(100), crop.right)), N(100)))

\* C8 (as stated): after a pointer-move of a corner resize of an unrotated
\* layer, with the size clamp inactive, the dragged handle has moved
\* horizontally by exactly dx.
C8_HandleTracksPointer ==
  (/\ Moved(ResizeModes)
   /\ Snap.rotation = Angle(N(0), <<0, 0>>)
   /\ Le(N(50), AskedWidth))
  => Sub(HandleX(dragMode, Layer.position, Layer.size, Layer.crop),
         HandleX(dragMode, Snap.pos, Snap.size, Snap.crop)) = GestureDx

\* C10: after a pointer-move of a crop gesture on an edge, that edge's inset
\* is min(max(0, inset0 + s * delta / fullDim * 100), 90 - opposite0), with
\* dy and the height for top and bottom, dx and the width for left and right,
\* s = +1 for top and left and -1 for bottom and right; the other three
\* insets are the snapshot's.
C10_CropInset ==
  Moved(CropModes) =>
    LET pctY == Div(Mul(GestureDy, N(100)), Snap.size.height)
        pctX == Div(Mul(GestureDx, N(100)), Snap.size.width)
        c0 == Snap.crop
        c == Layer.crop
    IN  /\ dragMode = "CROP_T" =>
             c = [c0 EXCEPT !.top = Min(Max(N(0), Add(c0.top, pctY)), Sub(N(90), c0.bottom))]
        /\ dragMode = "CROP_B" =>
             c = [c0 EXCEPT !.bottom = Min(Max(N(0), Sub(c0.bottom, pctY)), Sub(N(90), c0.top))]
        /\ dragMode = "CROP_L" =>
             c = [c0 EXCEPT !.left = Min(Max(N(0), Add(c0.left, pctX)), Sub(N(90), c0.right))]
        /\ dragMode = "CROP_R" =>
             c = [c0 EXCEPT !.right = Min(Max(N(0), Sub(c0.right, pctX)), Sub(N(90), c0.left))]

\* top 0 and bottom 80, the top edge dragged down by 15 % of the height: top 10
C10_Witness ==
  /\ Moved({"CROP_T"})
  /\ Snap.crop = Crop(N(0), N(80), N(0), N(0))
  /\ Div(Mul(GestureDy, N(100)), Snap.size.height) = N(15)
  /\ Layer.crop = Crop(N(10), N(80), N(0), N(0))

(***************************************************************************)
(* Properties of sequences of crop gestures on a new layer (SpecCrop)      *)
(***************************************************************************)
\* C3: on a layer created with crop zero, after any sequence of crop
\* gestures, top + bottom < 100 and left + right < 100.
C3_CropSumsBelow100 ==
  \A i \in 1..Len(items) :
    /\ Lt(Add(items[i].crop.top, items[i].crop.bottom), N(100))
    /\ Lt(Add(items[i].crop.left, items[i].crop.right), N(100))

\* both vertical insets were cropped and together use the whole budget of 90
C3_Witness ==
  /\ Len(items) = 1
  /\ Lt(N(0), Layer.crop.top)
  /\ Lt(N(0), Layer.crop.bottom)
  /\ Add(Layer.crop.top, Layer.crop.bottom) = N(90)

\* C9: on a layer created with crop zero, after any sequence of crop
\* gestures, each of the four insets lies in [0, 90].
C9_CropInsetRange ==
  \A i \in 1..Len(items) :
    \A v \in {items[i].crop.top, items[i].crop.bottom,
              items[i].crop.left, items[i].crop.right} :
      Le(N(0), v) /\ Le(v, N(90))

\* an inset driven to 90 while another one was driven back to 0 after
\* having been cropped in an earlier gesture
C9_Witness ==
  /\ Len(items) = 1
  /\ Layer.crop.left = N(90)
  /\ Layer.crop.right = N(0)
  /\ Lt(N(0), Layer.crop.top)
  /\ Moved({"CROP_L"})

(***************************************************************************)
(* Properties of the layer collection (SpecLayers, Spec)                   *)
(***************************************************************************)
\* the zIndex values of the layers, as a set and as a bag
ZIndexSet == {items[i].zIndex : i \in 1..Len(items)}
RECURSIVE ZIndexBag(_)
ZIndexBag(n) ==
  IF n = 0 THEN EmptyBag ELSE ZIndexBag(n - 1) (+) SetToBag({items[n].zIndex})

Target(i) == items[i].id = selectedItemId
\* a pointer-move in one of the modes that reaches the patch
MoveIn(modes, e) ==
  /\ handleMouseMove(e)
  /\ dragMode \in modes
  /\ selectedItemId # NullId
  /\ initialItemState # Null

\* C11: a pointer-move to (px, py) in translate mode, after a pointer-down at
\* (sx, sy), sets the position of the layer of the gesture to
\* snapshot.position + ((px - sx) / scale, (py - sy) / scale) and changes no
\* other field of it and no other layer; from (10, 10) at scale 2 a screen
\* delta of (60, -40) gives (40, -10).
C11_Translate ==
  [][\A e \in PointerPoints :
       MoveIn({"DRAG"}, e) =>
         LET newPosition ==
               Position(Add(Snap.pos.x, Div(N(e.clientX - startPos.x), scale)),
                        Add(Snap.pos.y, Div(N(e.clientY - startPos.y), scale)))
         IN  /\ DOMAIN items' = DOMAIN items
             /\ \A i \in DOMAIN items :
                  items'[i] = IF Target(i) THEN [items[i] EXCEPT !.position = newPosition]
                              ELSE items[i]
             /\ (/\ Snap.pos = Position(N(10), N(10)) /\ scale = N(2)
                 /\ e.clientX - startPos.x = 60 /\ e.clientY - startPos.y = -40)
                => newPosition = Position(N(40), N(-10))]_vars

\* the example: the first layer dragged from (10, 10) to (40, -10) at scale 2,
\* the second layer where it was
C11_Witness ==
  /\ Moved({"DRAG"})
  /\ scale = N(2)
  /\ Snap.pos = Position(N(10), N(10))
  /\ lastMove[1].clientX - startPos.x = 60
  /\ lastMove[1].clientY - startPos.y = -40
  /\ items[1].position = Position(N(40), N(-10))
  /\ items[1].size = Size(N(200), N(100))
  /\ items[2].position = Position(N(300), N(200))

\* the centre of the visible region of the snapshot on the screen: the
\* on-screen origin of the canvas plus scale times the centre in canvas units
SnapScreenCenter ==
  LET visW == Sub(Sub(N(100), Snap.crop.left), Snap.crop.right)
      visH == Sub(Sub(N(100), Snap.crop.top), Snap.crop.bottom)
      cx == Add(Snap.pos.x, Div(Mul(Snap.size.width, Add(Snap.crop.left, Div(visW, N(2)))), N(100)))
      cy == Add(Snap.pos.y, Div(Mul(Snap.size.height, Add(Snap.crop.top, Div(visH, N(2)))), N(100)))
      origin == canvasRect(container, baseDimensions, scale)
  IN  [x |-> Add(origin.left, Mul(scale, cx)), y |-> Add(origin.top, Mul(scale, cy))]

\* C12: a pointer-move in rotate mode sets the rotation of the layer of the
\* gesture to atan2(pointerY - centreY, pointerX - centreX) in degrees plus
\* 90 about the on-screen centre of the snapshot's visible region, and
\* changes nothing else; a pointer directly above the centre gives 0,
\* directly right 90, directly below 180 and directly left 270.
C12_Rotate ==
  [][\A e \in PointerPoints :
       MoveIn({"ROTATE"}, e) =>
         LET c == SnapScreenCenter
             px == N(e.clientX)
             py == N(e.clientY)
             angle == Atan2Deg(Sub(py, c.y), Sub(px, c.x))
             deg == Angle(Add(angle.deg, N(90)), angle.dir)
         IN  /\ DOMAIN items' = DOMAIN items
             /\ \A i \in DOMAIN items :
                  items'[i] = IF Target(i) THEN [items[i] EXCEPT !.rotation = deg]
                              ELSE items[i]
             /\ (px = c.x /\ Lt(py, c.y)) => deg = Angle(N(0), <<0, 0>>)
             /\ (py = c.y /\ Lt(c.x, px)) => deg = Angle(N(90), <<0, 0>>)
             /\ (px = c.x /\ Lt(c.y, py)) => deg = Angle(N(180), <<0, 0>>)
             /\ (py = c.y /\ Lt(px, c.x)) => deg = Angle(N(270), <<0, 0>>)]_vars

\* a cropped layer rotated with the pointer directly right of the centre of
\* its visible region
C12_Witness ==
  /\ Moved({"ROTATE"})
  /\ Snap.crop = Crop(N(10), N(10), N(20), N(30))
  /\ N(lastMove[1].clientY) = SnapScreenCenter.y
  /\ Lt(SnapScreenCenter.x, N(lastMove[1].clientX))
  /\ items[1].rotation = Angle(N(90), <<0, 0>>)
  /\ items[2].rotation = Angle(N(0), <<0, 0>>)

\* the snapshot handleMouseDown would take of a layer
SnapshotOf(item) ==
  [pos |-> item.position, size |-> item.size, rotation |-> item.rotation, crop |-> item.crop]

\* C13: for every layer and every crop the render pivot (transform-origin
\* originX %, originY % of the full box) is the canvas point the rotate
\* gesture uses as centre: position.x + size.width * originX / 100 = centerX
\* and position.y + size.height * originY / 100 = centerY.
C13_PivotIsGestureCenter ==
  \A i \in DOMAIN items :
    LET o == transformOrigin(items[i])
        c == itemCenter_unscaled(SnapshotOf(items[i]))
    IN  /\ Add(items[i].position.x, Div(Mul(items[i].size.width, o.originX), N(100))) = c.x
        /\ Add(items[i].position.y, Div(Mul(items[i].size.height, o.originY), N(100))) = c.y

\* a layer with unequal left and right insets, rotated about that centre
C13_Witness ==
  /\ Moved({"ROTATE"})
  /\ Layer.crop = Crop(N(10), N(10), N(20), N(30))
  /\ Layer.rotation # Snap.rotation
  /\ itemCenter_unscaled(SnapshotOf(Layer)) # itemCenter_fullBox(SnapshotOf(Layer))

\* position, size, rotation and crop of a layer
GeometryOf(item) ==
  [position |-> item.position, size |-> item.size, rotation |-> item.rotation,
   crop |-> item.crop]

\* C14: the snapshot and the start point change only at pointer-down (and the
\* snapshot is dropped at pointer-up), never at a pointer-move; so after a
\* pointer-move the position, size, rotation and crop of the layer of the
\* gesture are the snapshot's with the patch computed from the snapshot, the
\* scale and the current pointer position, whatever moves came before.
C14_SnapshotFrozen ==
  /\ [][/\ (initialItemState' # initialItemState \/ startPos' # startPos)
             => (pointerDown \/ handleMouseUp)
        /\ \A e \in PointerPoints :
             handleMouseMove(e) => UNCHANGED <<initialItemState, startPos, dragMode>>]_vars
  /\ [](Moved(DragMode) /\ selectedItemId # NullId =>
          \A i \in DOMAIN items :
            Target(i) =>
              GeometryOf(items[i]) =
                Merge([position |-> Snap.pos, size |-> Snap.size,
                       rotation |-> Snap.rotation, crop |-> Snap.crop],
                      movePatch(dragMode, lastMove[1], startPos, Snap, scale,
                                canvasRect(container, baseDimensions, scale))))

\* a resize has moved the layer away from its snapshot, so that a patch
\* computed from the live layer would differ
C14_Witness ==
  /\ Moved(ResizeModes)
  /\ selectedItemId = 1
  /\ items[1].size # Snap.size
  /\ items[1].position # Snap.pos

\* C15: the controller is either idle (dragMode NONE, no snapshot) or in one
\* gesture mode with a snapshot; it leaves idle only by a pointer-down on a
\* layer or handle, and a pointer-up in any mode returns it to idle and
\* discards the snapshot.
C15_IdleOrOneMode ==
  /\ [](/\ dragMode \in DragMode
        /\ (initialItemState # Null) <=> (dragMode # "NONE"))
  /\ [][/\ (dragMode = "NONE" /\ dragMode' # "NONE") => pointerDown
        /\ handleMouseUp => (dragMode' = "NONE" /\ initialItemState' = Null)]_vars

\* idle again after the gesture: the pointer-up has discarded the snapshot
C15_Witness ==
  /\ nGestures = 1
  /\ dragMode = "NONE"
  /\ initialItemState = Null
  /\ \E i \in DOMAIN items : items[i].rotation # Angle(N(0), <<0, 0>>)

\* C16: a pointer-down on a layer or on one of its handles selects that layer,
\* whatever was selected, and enters the mode of the element pressed (a
\* handle never gives translate mode); at most one layer is selected.
C16_PressSelects ==
  /\ [][\A e \in DownPoints, i \in DOMAIN items, mode \in DragMode \ {"NONE"} :
          handleMouseDown(e, i, mode) =>
            /\ selectedItemId' = items[i].id
            /\ dragMode' = mode
            /\ initialItemState' = Some(SnapshotOf(items[i]))
            /\ startPos' = [x |-> e.clientX, y |-> e.clientY]
            /\ items' = items]_vars
  /\ [](Cardinality({i \in DOMAIN items : Target(i)}) <= 1)

\* a press on the second layer has replaced the selection of the first
C16_Witness ==
  /\ dragMode = "DRAG"
  /\ selectedItemId = items[2].id
  /\ initialItemState = Some(SnapshotOf(items[2]))
  /\ lastMove = Null

\* C17: a click whose target is the container or the canvas surface sets the
\* selection to null and changes no layer; a click whose target is a layer
\* or a handle leaves the selection as it is.
C17_BackgroundClickDeselects ==
  [][\A target \in ClickTargets :
       handleClick(target) =>
         /\ items' = items
         /\ target \in {"containerRef", "exportRef"} => selectedItemId' = NullId
         /\ target = "layer" => selectedItemId' = selectedItemId]_vars

\* idle, both layers there, and the selection of the first layer cleared
C17_Witness ==
  /\ dragMode = "NONE"
  /\ selectedItemId = NullId
  /\ Len(items) = 2
  /\ nGestures = 0

(***************************************************************************)
(* Properties of removal and insertion (SpecLayers)                        *)
(***************************************************************************)
\* C18: removeItem(id) leaves a collection without layer id, the other layers
\* unchanged and in the same relative order; if id was selected, the
\* selection becomes null.
C18_RemoveItem ==
  [][\A id \in Ids :
       removeItem(id) =>
         LET keep == {i \in DOMAIN items : items[i].id # id}
         IN  /\ \A j \in DOMAIN items' : items'[j].id # id
             /\ Len(items') = Cardinality(keep)
             /\ \A i \in keep : items'[Cardinality({k \in keep : k <= i})] = items[i]
             /\ selectedItemId = id => selectedItemId' = NullId]_vars

\* the selected lower layer of two was removed: the upper one remains, with
\* its zIndex, and nothing is selected
C18_Witness ==
  /\ lastOp = "remove"
  /\ Len(items) = 1
  /\ items[1].zIndex = 2
  /\ selectedItemId = NullId

\* C19 (as stated): an insertion gives the new layer zIndex = 1 + the largest
\* zIndex in the collection at the moment it is inserted (1 into an empty
\* collection), places it last and leaves the existing layers unchanged.
C19_AppendAboveAll ==
  [][Len(items') = Len(items) + 1 =>
       /\ SubSeq(items', 1, Len(items)) = items
       /\ items'[Len(items')].zIndex = maxZOf(items) + 1]_vars

\* C20 (as stated): no two layers have the same zIndex and the array order
\* is strictly increasing in zIndex.
C20_ZIndexStrictlyIncreasing ==
  \A i, j \in DOMAIN items : i < j => items[i].zIndex < items[j].zIndex

(***************************************************************************)
(* Properties of the reorder (SpecLayers)                                  *)
(***************************************************************************)
\* a layer without its zIndex
NoZ(item) == [item EXCEPT !.zIndex = 0]
NoZSeq(its) == [k \in DOMAIN its |-> NoZ(its[k])]
\* a handleSort that reorders: both list references are set
SortStep == handleSort /\ dragOverItemRef # Null

\* C21: a reorder that drags the entry at visual index i of the list (top-most
\* first) onto visual index j moves array element N-1-i to array index N-1-j:
\* the dragged layer is then at visual index j, the others keep their relative
\* order, the layers are the same, only zIndex changes on any layer, and the
\* selection is unchanged.
C21_ReorderMoves ==
  [][(/\ SortStep
      /\ draggingItemRef[1] \in 0 .. Len(items) - 1
      /\ dragOverItemRef[1] \in 0 .. Len(items) - 1)
     => LET count == Len(items)
            from == count - draggingItemRef[1]
            to == count - dragOverItemRef[1]
        IN  /\ Len(items') = count
            /\ NoZ(items'[to]) = NoZ(items[from])
            /\ RemoveAt(NoZSeq(items'), to) = RemoveAt(NoZSeq(items), from)
            /\ selectedItemId' = selectedItemId]_vars

\* three layers after a reorder that moved the top entry to the bottom of the
\* list: the newest layer is first in the array, the others follow in order
C21_Witness ==
  /\ lastOp = "reorder"
  /\ Len(items) = 3
  /\ items[1].id > items[2].id
  /\ items[1].id > items[3].id
  /\ \A k \in DOMAIN items : ~items[k].isProcessing

\* C22: after every reorder each layer's zIndex is its array index + 1,
\* whatever gaps removals had left; a reorder onto its own index leaves the
\* array order unchanged; and renumbering again gives the same zIndex values.
C22_ReorderRenumbers ==
  [][SortStep =>
       /\ \A k \in DOMAIN items' : items'[k].zIndex = k
       /\ (/\ draggingItemRef = dragOverItemRef
           /\ draggingItemRef[1] \in 0 .. Len(items) - 1)
          => NoZSeq(items') = NoZSeq(items)
       /\ \A v \in 0 .. Len(items') - 1 : reorderedItems(items', v, v) = items']_vars

\* one layer left after a removal, its zIndex 2 renumbered to 1 by a reorder
\* onto its own index
C22_Witness ==
  /\ lastOp = "reorder"
  /\ Len(items) = 1
  /\ nUploads = 2
  /\ uploads = EmptyBag
  /\ items[1].id = 2
  /\ items[1].zIndex = 1


(***************************************************************************)
(* The view: backgrounds, project files and container sizes                *)
(***************************************************************************)
\* a load started by a Canvas that has been unmounted since
orphaned(b) == [width |-> b.width, height |-> b.height, orphan |-> TRUE]

\* variant of handleFileDrop whose scale survives the unmounting of the Canvas
handleFileDrop_keepsScale(p) ==
  /\ items' = p.items
  /\ selectedItemId' = NullId
  /\ baseImage' = p.baseImage
  /\ canvasDimensions' = Null
  /\ IF p.baseImage = Null
     THEN /\ dragMode' = "NONE"
          /\ listeners' = FALSE
          /\ startPos' = [x |-> 0, y |-> 0]
          /\ initialItemState' = Null
          /\ baseDimensions' = Null
          /\ loading' = {IF "orphan" \in DOMAIN b THEN b ELSE orphaned(b) : b \in loading}
          /\ lastMove' = Null
          /\ pressedId' = NullId
          /\ UNCHANGED scale
     ELSE /\ loading' = loading \cup {p.baseImage[1]}
          /\ UNCHANGED <<gestureVars, scale, baseDimensions, lastMove, pressedId>>
  /\ lastOp' = "load"
  /\ resized' = {}
  /\ caption' = Null
  /\ hasBorder' = FALSE
  /\ UNCHANGED <<draggingItemRef, dragOverItemRef, uploads, processing, clock, files, compositing,
                 container, nGestures, nUploads>>

\* handleFileDrop for a project file: loadProject resolves and
\* setState(loadedState) replaces the whole state, whose canvasDimensions,
\* caption and hasBorder are then undefined (no caption, no border). The Canvas is rendered only while state.baseImage is set:
\* without one it is unmounted and its state starts afresh at the next mount,
\* while the loads it started still report to handleCanvasDimensions.
handleFileDrop(p) ==
  /\ items' = p.items
  /\ selectedItemId' = NullId
  /\ baseImage' = p.baseImage
  /\ canvasDimensions' = Null
  /\ IF p.baseImage = Null
     THEN /\ dragMode' = "NONE"
          /\ listeners' = FALSE
          /\ startPos' = [x |-> 0, y |-> 0]
          /\ initialItemState' = Null
          /\ scale' = N(1)
          /\ baseDimensions' = Null
          /\ loading' = {IF "orphan" \in DOMAIN b THEN b ELSE orphaned(b) : b \in loading}
          /\ lastMove' = Null
          /\ pressedId' = NullId
     ELSE /\ loading' = loading \cup {p.baseImage[1]}
          /\ UNCHANGED <<gestureVars, scale, baseDimensions, lastMove, pressedId>>
  /\ lastOp' = "load"
  /\ resized' = {}
  /\ caption' = Null
  /\ hasBorder' = FALSE
  /\ UNCHANGED <<draggingItemRef, dragOverItemRef, uploads, processing, clock, files, compositing,
                 container, nGestures, nUploads>>

\* img.onload of a load whose Canvas is gone: setBaseDimensions has no
\* component to update, onDimensionsLoaded still sets state.canvasDimensions
orphanOnload(o) ==
  /\ o \in loading
  /\ "orphan" \in DOMAIN o
  /\ loading' = IF baseImage # Null THEN (loading \ {o}) \cup {baseImage[1]}
                 ELSE loading \ {o}
  /\ canvasDimensions' = Some([width |-> o.width, height |-> o.height])
  /\ UNCHANGED <<items, selectedItemId, baseImage, draggingItemRef,
                 dragOverItemRef, uploads, processing, clock, caption, hasBorder, files, compositing>>
  /\ UNCHANGED <<gestureVars, scale, baseDimensions, container, histVars>>

\* natural sizes of the backgrounds, client sizes of the container, and the
\* project files that can be dropped
ViewBackgrounds == {[width |-> 800, height |-> 600], [width |-> 400, height |-> 400]}
ViewContainers ==
  {[width |-> 840, height |-> 640], [width |-> 440, height |-> 340],
   [width |-> 1640, height |-> 640]}
ViewLayer ==
  [newItem(1, Position(N(10), N(10)), Size(N(200), N(100)), 1)
     EXCEPT !.isProcessing = FALSE]
ViewProjects ==
  {[baseImage |-> Null, items |-> <<>>],
   [baseImage |-> Some([width |-> 400, height |-> 400]), items |-> <<ViewLayer>>]}

\* The scene from construction: backgrounds set and replaced, projects
\* dropped, the container resized, and gestures on the layer of a project.
InitView ==
  /\ InitApp /\ InitCanvas /\ InitHist
  /\ container \in ViewContainers

NextView ==
  \/ \E b \in ViewBackgrounds : baseImage # Some(b) /\ handleBaseImageUpload(b)
  \/ \E b \in ViewBackgrounds : imgOnload(b)
  \/ \E o \in loading : orphanOnload(o)
  \/ \E c \in ViewContainers : baseImage # Null /\ containerResized(c)
  \/ \E p \in ViewProjects : handleFileDrop(p)
  \/ \E e \in DownPoints, i \in DOMAIN items :
       nGestures < MaxGestures /\ handleMouseDown(e, i, "DRAG") /\ nGestures' = nGestures + 1
  \/ \E e \in AppMovePoints : handleMouseMove(e)
  \/ handleMouseUp

SpecView == InitView /\ [][NextView]_vars

(***************************************************************************)
(* Properties of the viewport scale (SpecView)                             *)
(***************************************************************************)
\* the smaller of two rationals, by cross-multiplication
FitInside(cw, ch, w, h) ==
  IF (cw - 40) * h <= (ch - 40) * w THEN Rat(cw - 40, w) ELSE Rat(ch - 40, h)

\* C23: whenever the natural dimensions of the background are known, the
\* scale is min((containerWidth - 40) / canvasWidth,
\* (containerHeight - 40) / canvasHeight) for the current container and
\* canvas sizes, after the first computation and after every resize of the
\* container; equal inputs give equal scales.
C23_ScaleFitsInside ==
  baseDimensions # Null =>
    scale = FitInside(container.width, container.height,
                      baseDimensions[1].width, baseDimensions[1].height)

\* the container was resized after the dimensions became known, to a size
\* whose height is the binding side
C23_Witness ==
  /\ baseDimensions = Some([width |-> 800, height |-> 600])
  /\ container = [width |-> 1640, height |-> 640]
  /\ scale = N(1)
  /\ baseImage = baseDimensions

\* C24 (as stated): whenever the dimensions of the current background are
\* not known, which includes the time a replacement background has not
\* loaded yet, the scale is 1.
C24_ScaleOneUntilLoaded ==
  (baseImage = Null \/ baseDimensions # baseImage) => scale = N(1)

\* C24 (amended): whenever the Canvas knows no dimensions the scale is 1:
\* before the first background has loaded and after a project without a
\* background has cleared it. While a replacement background is loading the
\* Canvas keeps the dimensions and the scale of the previous background.
C24_ScaleOneWithoutDimensions ==
  /\ baseDimensions = Null => scale = N(1)
  /\ baseImage = Null => baseDimensions = Null

\* a pointer move was handled in a Canvas mounted after the background had
\* been cleared, before the background of the dropped project loaded
C24_Witness ==
  /\ baseDimensions = Null
  /\ baseImage # Null
  /\ lastOp = "load"
  /\ lastMove # Null
  /\ \E o \in loading : "orphan" \in DOMAIN o

(***************************************************************************)
(* Identity and initial geometry of layers (SpecLayers, SpecPlace)         *)
(***************************************************************************)
\* the ids of the layers, in array order
IdSeq == [i \in DOMAIN items |-> items[i].id]

\* a step that changes the id of no layer: it leaves the ids as they are,
\* appends the id of a new layer, removes the layers of one id, or reorders
IdsKept ==
  \/ IdSeq' = IdSeq
  \/ \E id \in 1 .. MaxClock : IdSeq' = Append(IdSeq, id)
  \/ \E id \in Ids : IdSeq' = SelectSeq(IdSeq, LAMBDA x : x # id)
  \/ /\ SortStep
     /\ \A id \in Ids : Len(SelectSeq(IdSeq', LAMBDA x : x = id))
                            = Len(SelectSeq(IdSeq, LAMBDA x : x = id))

\* C25 (as stated): the layers have pairwise distinct ids, and no step
\* changes the id of a layer.
C25_IdsDistinctAndStable ==
  /\ [](\A i, j \in DOMAIN items : i # j => items[i].id # items[j].id)
  /\ [][IdsKept]_vars

\* natural sizes of the backgrounds and of the source images, and values of
\* Math.random(), for the placement of new layers
PlaceCanvases ==
  {[width |-> 800, height |-> 600], [width |-> 600, height |-> 800],
   [width |-> 2000, height |-> 1200]}
PlaceSources ==
  {[width |-> 1200, height |-> 100], [width |-> 100, height |-> 1200],
   [width |-> 300, height |-> 300]}
PlaceRandoms == {N(0), Rat(1, 2), Rat(99, 100)}

\* The application from construction, with backgrounds and source images of
\* several shapes: the scene, uploads and the extraction.
NextPlace ==
  \/ \E b \in PlaceCanvases : baseImage = Null /\ handleBaseImageUpload(b)
  \/ \E b \in PlaceCanvases : imgOnload(b)
  \/ \E src \in PlaceSources, now \in 1 .. MaxClock :
       nUploads < MaxLayers /\ handleSourceImageUpload(src, now)
  \/ \E u \in BagToSet(uploads), loaded \in BOOLEAN, rx \in PlaceRandoms, ry \in PlaceRandoms :
       uploadResumed(u, loaded, rx, ry)
  \/ \E id \in BagToSet(processing) : extractionSettled(id)

SpecPlace == Init /\ [][NextPlace]_vars

\* the layer an insertion appended
Inserted == items'[Len(items')]

\* C26 (as stated): a layer created with the canvas dimensions (W, H) known
\* lies inside the canvas minus the padding of 50: 50 <= x, x + w <= W - 50,
\* 50 <= y and y + h <= H - 50.
C26_InsidePadding ==
  [][\A u \in BagToSet(uploads), loaded \in BOOLEAN, rx \in PlaceRandoms, ry \in PlaceRandoms :
       (u.canvas # Null /\ uploadResumed(u, loaded, rx, ry)) =>
         /\ Le(N(50), Inserted.position.x)
         /\ Le(Add(Inserted.position.x, Inserted.size.width), N(u.canvas[1].width - 50))
         /\ Le(N(50), Inserted.position.y)
         /\ Le(Add(Inserted.position.y, Inserted.size.height), N(u.canvas[1].height - 50))]_vars

\* the larger of the two dimensions of a size
LargerSide(size) == Max(size.width, size.height)

\* C27 (as stated): the initial size of a new layer whose source image loaded
\* has the aspect ratio of the source, and its larger dimension is the target
\* size, which is 0.9 times the smaller canvas dimension when the canvas
\* dimensions are known.
C27_AspectKeptAtTarget ==
  [][\A u \in BagToSet(uploads), rx \in PlaceRandoms, ry \in PlaceRandoms :
       uploadResumed(u, TRUE, rx, ry) =>
         /\ Mul(Inserted.size.width, N(u.src.height))
              = Mul(Inserted.size.height, N(u.src.width))
         /\ u.canvas # Null =>
              LargerSide(Inserted.size)
                = Mul(Rat(9, 10), Min(N(u.canvas[1].width), N(u.canvas[1].height)))]_vars

(***************************************************************************)
(* The extraction (SpecExtract)                                            *)
(***************************************************************************)
\* the Retry Extraction button of the settings panel: shown for the selected
\* layer, disabled while it is processing; processLayer marks the layer as
\* processing and awaits the extraction
handleRetry(id) ==
  /\ baseImage # Null
  /\ id # NullId
  /\ id = selectedItemId
  /\ \E i \in DOMAIN items : items[i].id = id /\ ~items[i].isProcessing
  /\ items' = updateItem(items, id, [isProcessing |-> TRUE])
  /\ processing' = processing (+) SetToBag({id})
  /\ UNCHANGED <<selectedItemId, baseImage, canvasDimensions, draggingItemRef,
                 dragOverItemRef, uploads, clock, caption, hasBorder, files, compositing>>
  /\ UNCHANGED <<gestureVars, canvasVars, histVars>>
  /\ rerender

\* The application from construction: the scene, uploads, extractions that
\* resolve or reject, retries, selection and removal.
NextExtract ==
  \/ sceneStep
  \/ uploadStep(BOOLEAN, MaxLayers)
  \/ selectStep
  \/ \E id \in Ids : handleRetry(id)

SpecExtract == Init /\ [][NextExtract]_vars

\* C28: when the extraction for a layer fails, every layer keeps all its
\* fields (processedSrc, aiOutputSrc, position, size, rotation, crop, zIndex
\* among them) except that isProcessing of that layer becomes false; no
\* layer is added or removed, and no extraction or upload is started.
C28_FailureKeepsLayer ==
  [][\A id \in BagToSet(processing) :
       extractionRejected(id) =>
         /\ Len(items') = Len(items)
         /\ \A i \in DOMAIN items :
              /\ [items'[i] EXCEPT !.isProcessing = items[i].isProcessing] = items[i]
              /\ items'[i].isProcessing = (items[i].isProcessing /\ items[i].id # id)
         /\ BagCardinality(processing') = BagCardinality(processing) - 1
         /\ uploads' = uploads]_vars

\* the first extraction of a layer failed: the layer is not processing, has
\* no extracted image, and nothing is in flight
C28_Witness ==
  /\ Len(items) = 1
  /\ ~items[1].isProcessing
  /\ items[1].aiOutputSrc = Null
  /\ items[1].processedSrc = Null
  /\ processing = EmptyBag
  /\ uploads = EmptyBag

(***************************************************************************)
(* Project files: src/utils/projectUtils.ts (SpecProject)                  *)
(***************************************************************************)
\* project files saved in one behaviour
MaxFiles == 1
\* captions the caption service can return
Captions == {"caption"}

\* the state of the App
AppState ==
  [baseImage |-> baseImage, items |-> items, selectedItemId |-> selectedItemId,
   canvasDimensions |-> canvasDimensions, caption |-> caption, hasBorder |-> hasBorder]

\* saveProjectNGL: the project data written (as compressed JSON) to the file:
\* the state, a version, and the layers with isProcessing false
saveProjectNGL(state) ==
  [baseImage |-> state.baseImage,
   items |-> [i \in DOMAIN state.items |-> [state.items[i] EXCEPT !.isProcessing = FALSE]],
   selectedItemId |-> state.selectedItemId,
   canvasDimensions |-> state.canvasDimensions,
   caption |-> state.caption, hasBorder |-> state.hasBorder, version |-> "1.2"]

\* loadProject for the data of a .ngl file: the state it returns has the
\* background and the layers of the file and no selection; the other fields
\* of the file are not read
loadProject(projectData) ==
  [baseImage |-> projectData.baseImage, items |-> projectData.items,
   selectedItemId |-> NullId]

\* executeSaveNGL: refused without a background
executeSaveNGL ==
  /\ baseImage # Null
  /\ Cardinality(files) < MaxFiles
  /\ files' = files \cup {[state |-> AppState, file |-> saveProjectNGL(AppState)]}
  /\ UNCHANGED compositing
  /\ UNCHANGED <<items, selectedItemId, baseImage, canvasDimensions, draggingItemRef,
                 dragOverItemRef, uploads, processing, clock, caption, hasBorder>>
  /\ UNCHANGED <<gestureVars, canvasVars, histVars>>
  /\ rerender

\* executeGenerateCaption: the selection is cleared, and when the caption
\* service answers the caption is set and the border is switched on
executeGenerateCaption(text) ==
  /\ baseImage # Null
  /\ selectedItemId' = NullId
  /\ caption' = Some(text)
  /\ hasBorder' = TRUE
  /\ UNCHANGED <<items, baseImage, canvasDimensions, draggingItemRef,
                 dragOverItemRef, uploads, processing, clock, files, compositing>>
  /\ UNCHANGED <<gestureVars, canvasVars, histVars>>
  /\ rerender

\* the border switch: with a caption it removes the caption, without one it
\* toggles the border
toggleBorder ==
  /\ baseImage # Null
  /\ IF caption # Null
     THEN caption' = Null /\ UNCHANGED hasBorder
     ELSE hasBorder' = ~hasBorder /\ UNCHANGED caption
  /\ UNCHANGED <<items, selectedItemId, baseImage, canvasDimensions, draggingItemRef,
                 dragOverItemRef, uploads, processing, clock, files, compositing>>
  /\ UNCHANGED <<gestureVars, canvasVars, histVars>>
  /\ rerender

\* The application from construction: the scene, uploads, the extraction,
\* selection and removal, the caption and the border, and project files
\* saved and dropped back.
NextProject ==
  \/ sceneStep
  \/ uploadStep(BOOLEAN, MaxLayers)
  \/ selectStep
  \/ \E text \in Captions : executeGenerateCaption(text)
  \/ toggleBorder
  \/ executeSaveNGL
  \/ \E f \in files : handleFileDrop(loadProject(f.file))

SpecProject == Init /\ [][NextProject]_vars

\* C29 (as stated): dropping a file written by saveProjectNGL gives a state
\* whose background, layers and caption and border settings are those of
\* the state that was saved, with isProcessing false on every layer and
\* no selection.
C29_RoundTrip ==
  [][\A f \in files :
       handleFileDrop(loadProject(f.file)) =>
         /\ baseImage' = f.state.baseImage
         /\ items' = [i \in DOMAIN f.state.items |->
                        [f.state.items[i] EXCEPT !.isProcessing = FALSE]]
         /\ selectedItemId' = NullId
         /\ caption' = f.state.caption
         /\ hasBorder' = f.state.hasBorder]_vars

(***************************************************************************)
(* Gestures and the selection (Spec)                                       *)
(***************************************************************************)
\* C30 (as stated): while a gesture is active, a pointer move changes only
\* the layer the gesture was started on, whatever has happened to the
\* selection since the press.
C30_PatchesGoToPressedLayer ==
  [][\A e \in AppMovePoints :
       handleMouseMove(e) =>
         \A i \in DOMAIN items : items'[i] # items[i] => items[i].id = pressedId]_vars

C32_LoadEffectQuiesces ==
  [][\A b \in ViewBackgrounds :
       (imgOnload(b) /\ loading = {b}) => loading' = {}]_vars

(***************************************************************************)
(* Listeners of a gesture (SpecView)                                       *)
(***************************************************************************)
\* C33: a pointer-move handled while no gesture is active or while no layer
\* is selected emits no update and changes no layer; the window listeners
\* are registered exactly while a gesture is active, and a pointer-up and
\* the teardown of the Canvas remove them.
C33_MoveNeedsGestureAndSelection ==
  /\ [](listeners <=> dragMode # "NONE")
  /\ [][\A e \in AppMovePoints :
          (handleMouseMove(e) /\ (dragMode = "NONE" \/ selectedItemId = NullId)) =>
            (items' = items /\ lastMove' = lastMove)]_vars
  /\ [][handleMouseUp => ~listeners']_vars
  /\ [][\A p \in ViewProjects :
          (handleFileDrop(p) /\ p.baseImage = Null) => ~listeners']_vars

\* a gesture is active on a Canvas whose selection a project load has cleared
C33_Witness ==
  /\ listeners
  /\ dragMode # "NONE"
  /\ initialItemState # Null
  /\ selectedItemId = NullId
  /\ items # <<>>
  /\ lastOp = "load"

(***************************************************************************)
(* Completion of an extraction (Spec)                                      *)
(***************************************************************************)
\* C34: the completion of an extraction, resolved or rejected, keeps the
\* position, size, rotation, crop and zIndex of its layer and every field
\* of every other layer, whatever gestures, removals and uploads happened
\* since it started: no layer is added or removed, the geometry of every
\* layer is kept and at most one layer, of the id of the extraction, changes.
C34_CompletionKeepsGeometry ==
  [][\A id \in BagToSet(processing) :
       extractionSettled(id) =>
         /\ Len(items') = Len(items)
         /\ \A i \in DOMAIN items :
              /\ GeometryOf(items'[i]) = GeometryOf(items[i])
              /\ items'[i].zIndex = items[i].zIndex
              /\ items[i].id # id => items'[i] = items[i]
         /\ Cardinality({i \in DOMAIN items : items'[i] # items[i]}) <= 1]_vars

(***************************************************************************)
(* Termination of an extraction (SpecExtractSettles)                       *)
(***************************************************************************)
\* SpecExtract in which every call of the extraction service settles: the
\* promise processLayer awaits is resolved or rejected by the service, and
\* the image loads of the analysis and of the masking resolve or reject
\* (loadImage sets onload and onerror).
SpecExtractSettles ==
  /\ Init
  /\ [][NextExtract]_vars
  /\ \A id \in 1 .. MaxClock : WF_vars(extractionSettled(id))

\* a layer of this id is marked as processing
Processing(id) == \E i \in DOMAIN items : items[i].id = id /\ items[i].isProcessing

\* C35: when an extraction has been started for a layer (isProcessing is
\* true) and the call of the service settles, the layer, if it is still in
\* the collection, eventually has isProcessing = false.
C35_ProcessingEnds ==
  \A id \in 1 .. MaxClock : Processing(id) ~> ~Processing(id)

\* a retried extraction has completed: the layer has an extracted image, is
\* not processing and nothing is in flight
C35_Witness ==
  /\ Len(items) = 1
  /\ ~items[1].isProcessing
  /\ items[1].aiOutputSrc # Null
  /\ processing = EmptyBag
  /\ uploads = EmptyBag

(***************************************************************************)
(* Mask recomposition: src/App.tsx (SpecMask)                              *)
(***************************************************************************)
\* recompositions in flight in one behaviour
MaxCompositing == 2
\* uploads of source images in one behaviour of SpecMask
MaxMaskUploads == 1
\* the image the extraction service returns when the extraction is retried
RetryImage == 2

\* the layer state.items.find returns for an id
FindItem(id) == items[CHOOSE i \in DOMAIN items :
                        items[i].id = id /\ \A j \in 1 .. i - 1 : items[j].id # id]

\* The Invert button of the settings panel (shown for the selected layer,
\* disabled while it is processing) and updateCompositing up to its await:
\* without an extracted image only invertMask is written; with one the call
\* is suspended at applyMask with the aiOutputSrc of the render it read.
updateCompositing(id) ==
  /\ baseImage # Null
  /\ id # NullId
  /\ id = selectedItemId
  /\ id \in Ids
  /\ ~FindItem(id).isProcessing
  /\ LET item == FindItem(id)
         invert == ~item.invertMask
     IN  IF item.aiOutputSrc = Null
         THEN /\ items' = updateItem(items, id, [invertMask |-> invert])
              /\ rerender
              /\ UNCHANGED compositing
         ELSE /\ BagCardinality(compositing) < MaxCompositing
              /\ compositing' = compositing (+)
                   SetToBag({[id |-> id, ai |-> item.aiOutputSrc[1], invert |-> invert]})
              /\ UNCHANGED <<items, loading>>
  /\ UNCHANGED <<selectedItemId, baseImage, canvasDimensions, draggingItemRef,
                 dragOverItemRef, uploads, processing, clock, caption, hasBorder, files>>
  /\ UNCHANGED <<gestureVars, canvasVars, histVars>>

\* updateCompositing after applyMask resolved
compositingResolved(c) ==
  /\ BagIn(c, compositing)
  /\ items' = updateItem(items, c.id, [processedSrc |-> Some(applyMask(c.ai, c.invert)),
                                       invertMask |-> c.invert])
  /\ compositing' = compositing (-) SetToBag({c})
  /\ UNCHANGED <<selectedItemId, baseImage, canvasDimensions, draggingItemRef,
                 dragOverItemRef, uploads, processing, clock, caption, hasBorder, files>>
  /\ UNCHANGED <<gestureVars, canvasVars, histVars>>
  /\ rerender

\* updateCompositing after applyMask rejected (an image failed to load): the
\* call ends with nothing written
compositingRejected(c) ==
  /\ BagIn(c, compositing)
  /\ compositing' = compositing (-) SetToBag({c})
  /\ UNCHANGED <<items, selectedItemId, baseImage, canvasDimensions, draggingItemRef,
                 dragOverItemRef, uploads, processing, clock, caption, hasBorder, files>>
  /\ UNCHANGED <<gestureVars, viewVars, histVars>>

\* One layer from its upload: extractions that resolve or reject, retries
\* that return another image, the Invert button, selection and removal.
NextMask ==
  \/ sceneStep
  \/ uploadStep({TRUE}, MaxMaskUploads)
  \/ selectStep
  \/ \E id \in Ids : handleRetry(id)
  \/ \E id \in BagToSet(processing) :
       FindItem(id).aiOutputSrc # Null /\ extractionResolved(id, RetryImage)
  \/ \E id \in Ids : updateCompositing(id)
  \/ \E c \in BagToSet(compositing) : compositingResolved(c)
  \/ \E c \in BagToSet(compositing) : compositingRejected(c)

SpecMask == Init /\ [][NextMask]_vars

\* C36: whenever neither an extraction nor a recomposition is in flight for
\* a layer that has an extracted image, the processedSrc of the layer is the
\* composite of its current aiOutputSrc under its current invertMask, also
\* when the Invert button and a retry of the extraction overlapped.
C36_CompositeIsCurrent ==
  \A i \in DOMAIN items :
    (/\ items[i].aiOutputSrc # Null
     /\ ~BagIn(items[i].id, processing)
     /\ \A c \in BagToSet(compositing) : c.id # items[i].id) =>
      items[i].processedSrc = Some(applyMask(items[i].aiOutputSrc[1], items[i].invertMask))

(***************************************************************************)
(* The selection (SpecSelection)                                           *)
(***************************************************************************)
\* The application from construction: the scene, uploads, extraction,
\* selection, removal, gestures, reorders of the layer list and drops of
\* project files.
\* uploads of source images in one behaviour of SpecSelection
MaxSelectionUploads == 1
\* the project file that can be dropped: the scene and one layer
SelectionProject == [baseImage |-> Some(GestureScene), items |-> <<ViewLayer>>]

NextSelection ==
  \/ sceneStep
  \/ uploadStep({TRUE}, MaxSelectionUploads)
  \/ selectStep
  \/ \E i \in DOMAIN items :
       /\ nGestures < MaxGestures
       /\ handleMouseDown([clientX |-> 300, clientY |-> 300], i, "DRAG")
       /\ nGestures' = nGestures + 1
  \/ handleMouseMove([clientX |-> 330, clientY |-> 330])
  \/ handleMouseUp
  \/ handleBackgroundClick
  \/ \E index \in 0 .. Len(items) - 1 : onDragStart(index)
  \/ \E index \in 0 .. Len(items) - 1 : onDragEnter(index)
  \/ handleSort
  \/ handleFileDrop(SelectionProject)

SpecSelection == Init /\ [][NextSelection]_vars

\* C37: selectedItemId is null or the id of a layer of the collection, in
\* every state reached by uploads, selections, gestures, removals, reorders
\* and project loads.
C37_SelectionIsALayer ==
  selectedItemId = NullId \/ selectedItemId \in Ids

\* the selected layer was removed during a gesture while another layer
\* remains: nothing is selected
C37_Witness ==
  /\ lastOp = "remove"
  /\ selectedItemId = NullId
  /\ items # <<>>
  /\ dragMode # "NONE"

(***************************************************************************)
(* A resize after crop gestures (SpecCropResize)                           *)
(***************************************************************************)
\* A new layer, crop gestures on it without end, and then resize gestures.
NextCropResize ==
  \/ \E e \in DownPoints, mode \in CropModes :
       /\ nGestures < MaxGestures
       /\ handleMouseDown(e, 1, mode)
       /\ UNCHANGED nGestures
  \/ \E e \in DownPoints, mode \in ResizeModes :
       /\ nGestures < MaxGestures
       /\ handleMouseDown(e, 1, mode)
       /\ nGestures' = nGestures + 1
  \/ \E e \in CropPoints : handleMouseMove(e)
  \/ handleMouseUp

SpecCropResize == InitCrop /\ [][NextCropResize]_vars

\* visW_pct of calculateResizeUpdate: the visible fraction of the width
visW_pct(crop) == Div(Sub(Sub(N(100), crop.left), crop.right), N(100))

\* C38: on a layer created with crop zero, after any sequence of crop
\* gestures, the visible width fraction (100 - left - right) / 100 of the
\* snapshot of a resize gesture is at least 0.10, so that the resize never
\* takes the branch for a fraction of at most 0.05.
C38_ResizeSeesVisibleWidth ==
  (dragMode \in ResizeModes /\ initialItemState # Null) =>
    Le(Rat(1, 10), visW_pct(initialItemState[1].crop))

\* a resize has acted on a layer cropped from both sides to a visible width
\* of exactly one tenth
C38_Witness ==
  /\ dragMode \in ResizeModes
  /\ initialItemState # Null
  /\ lastMove # Null
  /\ Lt(N(0), initialItemState[1].crop.left)
  /\ Lt(N(0), initialItemState[1].crop.right)
  /\ visW_pct(initialItemState[1].crop) = Rat(1, 10)
  /\ Layer.size # initialItemState[1].size

(***************************************************************************)
(* Dropped files: src/utils/projectUtils.ts, src/App.tsx (SpecDrop)        *)
(***************************************************************************)
\* A dropped file: the extension its name ends with, whether its bytes hold
\* the separator, and what the text after decoding is. The browser derives
\* file.type from the extension, whatever its case.
FileType(ext) ==
  IF ext \in {".png", ".PNG"} THEN "image/png"
  ELSE IF ext = ".jpg" THEN "image/jpeg"
  ELSE IF ext = ".json" THEN "application/json"
  ELSE IF ext = ".txt" THEN "text/plain"
  ELSE ""
DropData ==
  {[kind |-> "project", baseImage |-> q.baseImage, items |-> q.items] : q \in ViewProjects}
    \cup {[kind |-> "noItems"], [kind |-> "itemsNotArray"], [kind |-> "notJson"]}
DropFiles ==
  {[ext |-> x, separator |-> sep, data |-> d] :
     x \in {".png", ".PNG", ".jpg", ".ngl", ".json", ".txt"}, sep \in BOOLEAN,
     d \in DropData}
\* natural size of the picture of a dropped image file
DropImage == [width |-> 640, height |-> 480]

\* file.type.startsWith('image/')
IsImage(file) == FileType(file.ext) \in {"image/png", "image/jpeg"}

\* variant of parseProject without the test of items
parseProject_anyItems(data) ==
  IF data.kind = "notJson" THEN Null
  ELSE IF data.kind \in {"noItems", "itemsNotArray"}
  THEN Some([baseImage |-> Null, items |-> <<>>, selectedItemId |-> NullId])
  ELSE Some(loadProject(data))

\* JSON.parse, the test of projectData.items and the state returned; Null
\* for a throw
parseProject(data) ==
  IF data.kind = "notJson" THEN Null
  ELSE IF data.kind \in {"noItems", "itemsNotArray"} THEN Null
  ELSE Some(loadProject(data))

\* loadProject of a file: Null when it rejects
loadProjectOf(file) ==
  IF FileType(file.ext) = "image/png" \/ file.ext = ".png"
  THEN IF file.separator THEN parseProject(file.data) ELSE Null
  ELSE IF file.ext = ".ngl" THEN parseProject(file.data)
  ELSE IF file.ext = ".json" THEN parseProject(file.data)
  ELSE Null

\* handleFileDrop for any file: the state of a project that loads replaces
\* the state; otherwise an image file becomes the background and any other
\* file only raises a toast
handleFileDropOf(file) ==
  IF loadProjectOf(file) # Null
  THEN handleFileDrop(loadProjectOf(file)[1])
  ELSE IF IsImage(file)
  THEN handleBaseImageUpload(DropImage)
  ELSE UNCHANGED vars

\* The application from construction: the scene, selection and removal of
\* the layers of a project, and drops of files of every kind.
NextDrop ==
  \/ \E b \in Backgrounds : baseImage = Null /\ handleBaseImageUpload(b)
  \/ \E b \in Backgrounds \cup ViewBackgrounds \cup {DropImage} : imgOnload(b)
  \/ \E o \in loading : orphanOnload(o)
  \/ selectStep
  \/ \E file \in DropFiles : handleFileDropOf(file)

SpecDrop == Init /\ [][NextDrop]_vars

\* C39 (as stated): loadProject rejects for a file whose name ends with none
\* of .png, .ngl and .json, for a PNG without the separator and for data
\* whose items are missing or not an array; after a failed load the drop of
\* a file that is not an image leaves the state unchanged, and the drop of
\* an image replaces baseImage only.
C39_DropRejects ==
  [][\A file \in DropFiles :
       handleFileDropOf(file) =>
         /\ (\/ file.ext \notin {".png", ".ngl", ".json"}
             \/ (FileType(file.ext) = "image/png" \/ file.ext = ".png") /\ ~file.separator
             \/ file.data.kind \in {"noItems", "itemsNotArray"}) =>
               loadProjectOf(file) = Null
         /\ (loadProjectOf(file) = Null /\ ~IsImage(file)) => UNCHANGED vars
         /\ (loadProjectOf(file) = Null /\ IsImage(file)) =>
              /\ baseImage' = Some(DropImage)
              /\ UNCHANGED <<items, selectedItemId, canvasDimensions, caption,
                             hasBorder>>]_vars

\* C39 (amended): as stated, but a file whose name ends with none of .png,
\* .ngl and .json is rejected for its name only when its type is not
\* image/png either.
C39_DropRejectsUnlessPngType ==
  [][\A file \in DropFiles :
       handleFileDropOf(file) =>
         /\ (\/ file.ext \notin {".png", ".ngl", ".json"} /\ FileType(file.ext) # "image/png"
             \/ (FileType(file.ext) = "image/png" \/ file.ext = ".png") /\ ~file.separator
             \/ file.data.kind \in {"noItems", "itemsNotArray"}) =>
               loadProjectOf(file) = Null
         /\ (loadProjectOf(file) = Null /\ ~IsImage(file)) => UNCHANGED vars
         /\ (loadProjectOf(file) = Null /\ IsImage(file)) =>
              /\ baseImage' = Some(DropImage)
              /\ UNCHANGED <<items, selectedItemId, canvasDimensions, caption,
                             hasBorder>>]_vars

\* an image file that is no project was dropped on a loaded project with a
\* selected layer: the background is its picture, the layer and the selection stay
C39_Witness ==
  /\ baseImage = Some(DropImage)
  /\ items # <<>>
  /\ selectedItemId \in Ids
  /\ lastOp = "load"

(***************************************************************************)
(* Gestures in a small container (SpecScale)                               *)
(***************************************************************************)
\* client sizes of the container: one is narrower than the padding of 40
ScaleContainers == {[width |-> 840, height |-> 640], [width |-> 30, height |-> 640]}

\* A project with one layer, in a container that can become narrower than
\* the padding, and translate gestures on the layer.
InitScale ==
  /\ InitApp /\ InitCanvas /\ InitHist
  /\ container \in ScaleContainers

NextScale ==
  \/ handleFileDrop(SelectionProject)
  \/ \E b \in Backgrounds : imgOnload(b)
  \/ \E c \in ScaleContainers : baseImage # Null /\ containerResized(c)
  \/ \E id \in Ids : selectItem(id)
  \/ pointerDown
  \/ \E e \in AppMovePoints : handleMouseMove(e)
  \/ handleMouseUp

SpecScale == InitScale /\ [][NextScale]_vars

\* C40 (as stated): whenever handleMouseMove divides the delta of a
\* pointer-move by the scale, the scale is strictly positive, for every size
\* of the container and of the canvas, a container not larger than the
\* padding of 40 included.
C40_ScalePositiveAtDivision ==
  [][\A e \in AppMovePoints :
       (/\ handleMouseMove(e)
        /\ dragMode # "NONE"
        /\ selectedItemId # NullId
        /\ initialItemState # Null) => Lt(N(0), scale)]_vars
====
